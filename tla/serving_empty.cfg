\* prepare_artifacts publishes what its --force left when it was killed.
SPECIFICATION Spec
CONSTANTS
  MaxVersion = 1
  Scripts = {"promote", "merge", "awq", "gguf", "prepare"}
INVARIANT
  PreparedIsAModel

\* prepare_artifacts --force removes the .gguf file.
SPECIFICATION Spec
CONSTANTS
  MaxVersion = 2
  Scripts = {"promote", "merge", "awq", "gguf", "prepare"}
INVARIANT
  GgufIsThere

\* quantize_awq publishes what it made of the release before.
SPECIFICATION Spec
CONSTANTS
  MaxVersion = 2
  Scripts = {"promote", "merge", "awq", "gguf", "prepare"}
PROPERTY
  AwqIsOfItsModel

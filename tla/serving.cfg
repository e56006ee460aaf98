\* Five scripts, killed anywhere, and both servers started at any time.
SPECIFICATION FairSpec
CONSTANTS
  MaxVersion = 1
  Scripts = {"promote", "merge", "awq", "gguf", "prepare"}
INVARIANT
  EndedWellIsServable
PROPERTY
  VllmComesUp

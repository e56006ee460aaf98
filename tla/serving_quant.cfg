\* merge_lora after quantize_awq leaves the key quantization.
SPECIFICATION Spec
CONSTANTS
  MaxVersion = 2
  Scripts = {"promote", "merge", "awq", "gguf", "prepare"}
INVARIANT
  QuantizationIsOfTheModel

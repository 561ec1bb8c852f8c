---------------------------- MODULE MCDownloader ----------------------------
(* Downloader for TLC: a model file and an optional tokenizer file. *)
EXTENDS Downloader

ModelFiles == <<"model.onnx", "tokenizer.json">>
OptionalFiles == {"tokenizer.json", "config.json", "tokenizer_config.json",
                  "special_tokens_map.json"}
=============================================================================

--------------------------- MODULE MCAssetUpload ---------------------------
(***************************************************************************)
(* Instances of AssetUpload for TLC.  Two requests are enough for every    *)
(* race in the model: a request meets another one only at the workspace    *)
(* row lock, at the content check and at the version number.  Two          *)
(* lifecycle changes let a document be trashed and restored in between.    *)
(***************************************************************************)
EXTENDS AssetUpload
============================================================================

------------------------------ MODULE TargetsBase ------------------------------
(* The services that are deployed, and the tags of their images. *)
CONSTANTS Service, Tag
=============================================================================

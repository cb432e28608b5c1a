------------------------------ MODULE MCFilesTab ------------------------------
(* Instances of FilesTab for TLC.                                            *)
EXTENDS FilesTab

\* One editable file and one over EDIT_MAX_BYTES.
MCDisk ==
  [p \in Paths |-> [of |-> p, kind |-> IF p = CHOOSE q \in Paths : TRUE THEN "text" ELSE "huge",
                    v |-> CHOOSE v \in Values : v # Empty]]

\* A file over EDIT_WARN_BYTES, uploaded over the editable one.
MCUploads ==
  {[of |-> CHOOSE p \in Paths : TRUE, kind |-> "large", v |-> CHOOSE v \in Values : v # Empty]}
=============================================================================

------------------------------- MODULE MC_ReeFs -------------------------------
(***************************************************************************)
(* Model-checking instance of ReeFs.  The bounds are in the .cfg files;   *)
(* the seek offsets are given here because a .cfg has no negative numbers.*)
(***************************************************************************)
EXTENDS ReeFs

\* Offsets for ree_fs_seek: a negative one (clamped to 0), positions inside
\* and past the file, and one past TEE_DATA_MAX_POSITION (rejected).
MC_SeekOffsets == {-1, 0, 1, 3, 6}

=============================================================================

------------------------------- MODULE Patcher -------------------------------
(***************************************************************************)
(* util/patch: the deferred write at the end of every reconcile.           *)
(*                                                                         *)
(* NewPatcher keeps a copy `before` of the object as the reconciler read   *)
(* it.  Patch compares it with the object the reconciler leaves behind and *)
(* issues up to two JSON merge patches, one for spec and metadata, one for *)
(* the status subresource.  A merge patch names only the fields that       *)
(* differ from `before`, so each operator below works on one field.        *)
(***************************************************************************)

(***************************************************************************)
(* The value of a field on the server after a merge patch computed from    *)
(* `before` and `after`: a field the reconciler did not change keeps       *)
(* whatever value the server has by now.                                   *)
(***************************************************************************)
MergeField(beforeVal, afterVal, serverVal) ==
    IF beforeVal # afterVal THEN afterVal ELSE serverVal

(***************************************************************************)
(* client.Patch decodes the server's answer into the object it was given.  *)
(* A field the answer carries overwrites the one in memory; a field the    *)
(* answer leaves out (`unset` on the server) keeps its value in memory.    *)
(***************************************************************************)
DecodeField(memVal, serverVal, unset) ==
    IF serverVal = unset THEN memVal ELSE serverVal

=============================================================================

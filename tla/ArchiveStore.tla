---------------------------- MODULE ArchiveStore ----------------------------
(***************************************************************************)
(* What a .htmlarc archive promises while it grows in place: anyone who    *)
(* opens it sees a sequence of documents with distinct keys, which changes *)
(* only by whole appends.  An append is published at once; it survives a   *)
(* power loss from the moment it is hardened.                              *)
(***************************************************************************)
EXTENDS Sequences, Naturals

CONSTANT Keys

VARIABLES
  store,      (* the keys a reader opening the archive now would see       *)
  durable     (* the keys it would see after a power loss now              *)

storeVars == <<store, durable>>

Distinct(ks) == \A i, j \in DOMAIN ks : ks[i] = ks[j] => i = j

KeySeq == {ks \in Seq(Keys) : Distinct(ks)}

StoreTypeOK ==
  /\ store \in KeySeq
  /\ durable \in KeySeq

StoreInit ==
  /\ store = <<>>
  /\ durable = <<>>

Extends(new, old) ==
  /\ Len(old) <= Len(new)
  /\ \A i \in DOMAIN old : new[i] = old[i]

(* One append becomes visible, whole: old documents keep their positions.  *)
Publish ==
  /\ Extends(store', store)
  /\ Distinct(store')
  /\ UNCHANGED durable

(* Everything published so far is on stable storage.                       *)
Harden ==
  /\ durable' = store
  /\ UNCHANGED store

(* The machine stops: what was hardened is there, what was only published  *)
(* may be there; either way it is what the disk now holds.                 *)
PowerFailure ==
  /\ store' \in {store, durable}
  /\ durable' = store'

StoreNext == Publish \/ Harden \/ PowerFailure

StoreSpec == StoreInit /\ [][StoreNext]_storeVars

=============================================================================

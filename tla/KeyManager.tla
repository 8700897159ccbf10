----------------------------- MODULE KeyManager -----------------------------
(***************************************************************************)
(* KeyManager of core/km.py: keys under ids, rotated, revoked and handed   *)
(* out.  Nothing is ever removed; rotate_key overwrites whatever it finds  *)
(* under the new id, which may be in use, revoked or the old id itself.    *)
(*                                                                         *)
(* Key material is named by the number of its draw (secrets.token_bytes    *)
(* does not repeat itself), and so is newer the larger it is.  Types,      *)
(* lengths and times are left out.                                         *)
(***************************************************************************)
EXTENDS Naturals, Sequences

CONSTANTS
    Ids,       \* key ids
    MaxDraws,  \* bound: keys drawn
    MaxUses    \* bound: times one key is handed out

NoId == "None"

ASSUME KeyManagerAssumption ==
    NoId \notin Ids /\ MaxDraws \in Nat /\ MaxUses \in Nat

VARIABLES
    store,    \* [Ids -> KeyEntry or NoEntry], _store
    history,  \* _rotation_history
    draws,    \* keys drawn so far; names the last one
    revoked   \* history: every key that revoke_key has revoked

vars == <<store, history, draws, revoked>>

KeyEntry == [key : Nat \ {0}, revoked : BOOLEAN, rotated_to : Ids \cup {NoId},
             usage_count : Nat]
NoEntry == [key |-> 0, revoked |-> FALSE, rotated_to |-> NoId, usage_count |-> 0]
NewEntry(k) == [NoEntry EXCEPT !.key = k]

Holds(id) == store[id] # NoEntry

(* An id that was given, or one of secrets.token_hex(8), which is new.     *)
Chosen(arg, id) == IF arg = NoId THEN ~Holds(id) ELSE id = arg

-----------------------------------------------------------------------------
Init ==
    /\ store = [id \in Ids |-> NoEntry]
    /\ history = <<>>
    /\ draws = 0
    /\ revoked = {}

(* A variant of CreateKey that takes any id. *)
CreateKeyAnyway(arg) ==
    /\ draws < MaxDraws
    /\ \E id \in Ids :
          /\ Chosen(arg, id)
          /\ store' = [store EXCEPT ![id] = NewEntry(draws + 1)]
    /\ draws' = draws + 1
    /\ UNCHANGED <<history, revoked>>

(* create_key; an id that exists raises ValueError and changes nothing.    *)
CreateKey(arg) ==
    /\ draws < MaxDraws
    /\ \E id \in Ids :
          /\ Chosen(arg, id) /\ ~Holds(id)
          /\ store' = [store EXCEPT ![id] = NewEntry(draws + 1)]
    /\ draws' = draws + 1
    /\ UNCHANGED <<history, revoked>>

(* get_key; None is handed out for a missing or revoked key. *)
GetKey(id) ==
    /\ Holds(id) /\ ~store[id].revoked
    /\ store[id].usage_count < MaxUses
    /\ store' = [store EXCEPT ![id].usage_count = @ + 1]
    /\ UNCHANGED <<history, draws, revoked>>

(* Variants of RotateKey: with the old material under the new id; with the *)
(* mark put on whatever is then stored under the old id; and with a first  *)
(* mark that stays.                                                        *)
RotateKeyKeepingMaterial(old, arg) ==
    /\ Holds(old) /\ draws < MaxDraws
    /\ \E new \in Ids :
          /\ Chosen(arg, new)
          /\ store' = [id \in Ids |->
                IF id = new THEN NewEntry(store[old].key)
                ELSE IF id = old THEN [store[id] EXCEPT !.rotated_to = new]
                ELSE store[id]]
          /\ history' = Append(history, [old |-> old, new |-> new])
    /\ draws' = draws + 1
    /\ UNCHANGED revoked

RotateKeyMarkingStored(old, arg) ==
    /\ Holds(old) /\ draws < MaxDraws
    /\ \E new \in Ids :
          /\ Chosen(arg, new)
          /\ store' = [[store EXCEPT ![new] = NewEntry(draws + 1)]
                             EXCEPT ![old].rotated_to = new]
          /\ history' = Append(history, [old |-> old, new |-> new])
    /\ draws' = draws + 1
    /\ UNCHANGED revoked

RotateKeyMarkingOnce(old, arg) ==
    /\ Holds(old) /\ draws < MaxDraws
    /\ \E new \in Ids :
          /\ Chosen(arg, new)
          /\ store' = [id \in Ids |->
                IF id = new THEN NewEntry(draws + 1)
                ELSE IF id = old /\ store[id].rotated_to = NoId
                  THEN [store[id] EXCEPT !.rotated_to = new]
                ELSE store[id]]
          /\ history' = Append(history, [old |-> old, new |-> new])
    /\ draws' = draws + 1
    /\ UNCHANGED revoked

(* rotate_key.  The mark goes to the entry that was found under the old id *)
(* at the beginning, which is no longer stored if the new id is the same.  *)
RotateKey(old, arg) ==
    /\ Holds(old) /\ draws < MaxDraws
    /\ \E new \in Ids :
          /\ Chosen(arg, new)
          /\ store' = [id \in Ids |->
                IF id = new THEN NewEntry(draws + 1)
                ELSE IF id = old THEN [store[id] EXCEPT !.rotated_to = new]
                ELSE store[id]]
          /\ history' = Append(history, [old |-> old, new |-> new])
    /\ draws' = draws + 1
    /\ UNCHANGED revoked

(* A variant of RevokeKey that does not ask whether there is such a key. *)
RevokeUnknownKey(id) ==
    /\ ~store[id].revoked
    /\ store' = [store EXCEPT ![id].revoked = TRUE]
    /\ revoked' = revoked \cup {store[id].key}
    /\ UNCHANGED <<history, draws>>

(* revoke_key; revoking twice changes nothing. *)
RevokeKey(id) ==
    /\ Holds(id) /\ ~store[id].revoked
    /\ store' = [store EXCEPT ![id].revoked = TRUE]
    /\ revoked' = revoked \cup {store[id].key}
    /\ UNCHANGED <<history, draws>>

Next ==
    \/ \E arg \in Ids \cup {NoId} : CreateKey(arg)
    \/ \E old \in Ids, arg \in Ids \cup {NoId} : RotateKey(old, arg)
    \/ \E id \in Ids : GetKey(id) \/ RevokeKey(id)

Spec == Init /\ [][Next]_vars

-----------------------------------------------------------------------------
(* Properties.                                                             *)

(* Every variable keeps its type, and every key is one that was drawn.     *)
TypeOK ==
    /\ store \in [Ids -> KeyEntry \cup {NoEntry}]
    /\ history \in Seq([old : Ids, new : Ids])
    /\ draws \in Nat
    /\ revoked \in SUBSET Nat
    /\ \A id \in Ids : store[id].key <= draws

(* A key marked as rotated names a key that is there and is newer, however *)
(* often that id has been overwritten since, by a rotation of another key  *)
(* or of itself: who follows rotated_to arrives (rotate_key).              *)
ReplacementIsNewer ==
    \A id \in Ids : store[id].rotated_to # NoId =>
        store[store[id].rotated_to].key > store[id].key

(* What a key is marked with is what the rotation history says of its      *)
(* latest rotation (rotate_key, get_rotation_history).                     *)
RotationsRecorded ==
    \A id \in Ids : store[id].rotated_to # NoId =>
        \E i \in DOMAIN history :
            /\ history[i] = [old |-> id, new |-> store[id].rotated_to]
            /\ \A j \in DOMAIN history : j > i => history[j].old # id

(* A key that was revoked is not handed out again, under whatever id and   *)
(* whatever became of the id it was revoked under (get_key, revoke_key).   *)
RevokedNotHandedOut ==
    [][\A id \in Ids :
          store'[id].usage_count > store[id].usage_count
              => store'[id].key \notin revoked]_vars

(* The key under an id changes, or the revocation of an id is lifted, only *)
(* by a rotation onto that id, which the history tells (create_key refuses *)
(* an id that exists; rotate_key does not).                                *)
OnlyRotationReplaces ==
    [][\A id \in Ids :
          /\ Holds(id)
          /\ store'[id].key # store[id].key \/ (store[id].revoked /\ ~store'[id].revoked)
          => /\ Len(history') = Len(history) + 1
             /\ history'[Len(history')].new = id]_vars
=============================================================================

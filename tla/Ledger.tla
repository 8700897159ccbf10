------------------------------- MODULE Ledger -------------------------------
(***************************************************************************)
(* The research log: MessageBlockchain of core/blockchain.py, its file     *)
(* blockchain_temp.json in core/storage.py, and the handlers of            *)
(* server_research.py that append to it and verify it from one thread per  *)
(* client, under self.lock.                                                *)
(*                                                                         *)
(* The server may die at any step: by a kill, or by Ctrl-C, which does not *)
(* wait for the client threads because they are daemons.  A save truncates *)
(* the file before it writes it, and its errors are swallowed.             *)
(*                                                                         *)
(* A message is a number; the numbers past the messages stand for the      *)
(* genesis blocks, which carry the time of the start-up that made them and *)
(* so differ from life to life.  Hash stands for mine_block: the digest of *)
(* a block with the nonce the search ends at, a function of the block's    *)
(* other fields.                                                           *)
(***************************************************************************)
EXTENDS Integers, Sequences

CONSTANTS
    Threads,      \* the server's client threads
    Hash(_, _, _),\* the mined digest of a block: index, data, previous_hash
    MaxSends,     \* bound: messages sent
    MaxCrashes,   \* bound: deaths of the server
    DiskFails     \* whether a save may raise

ASSUME LedgerAssumption ==
    /\ MaxSends \in Nat /\ MaxCrashes \in Nat /\ DiskFails \in BOOLEAN

NoThread == "none"
ASSUME NoThreadAssumption == NoThread \notin Threads

VARIABLES
    up,       \* the server process runs
    chain,    \* MessageBlockchain.chain
    disk,     \* blockchain_temp.json: absent, torn, or whole with a chain
    lock,     \* the holder of self.lock
    pc,       \* [Threads -> place in _handle_send_message]
    msg,      \* [Threads -> the message being sent]
    block,    \* [Threads -> new_block of add_message_block]
    sends,    \* messages sent so far; numbers the next one
    crashes,  \* deaths so far
    acked,    \* history: the success answers, [msg, index, life]
    saved     \* history: the last save of this life succeeded

vars == <<up, chain, disk, lock, pc, msg, block, sends, crashes, acked, saved>>

Block == [index : Nat, data : Nat, previous_hash : Nat, hash : Nat]

MinedBlock(i, data, prev) ==
    [index |-> i, data |-> data, previous_hash |-> prev, hash |-> Hash(i, data, prev)]

(* create_genesis_block in a life of the server. *)
Genesis(life) == MinedBlock(0, MaxSends + 1 + life, 0)

Latest(c) == c[Len(c)]

(* The block add_message_block builds and mines on top of chain c. *)
NewBlock(c, data) == MinedBlock(Len(c), data, Latest(c).hash)

IsChainValid(c) ==
    /\ c # <<>>
    /\ \A i \in 2..Len(c) :
         /\ c[i].hash = Hash(c[i].index, c[i].data, c[i].previous_hash)
         /\ c[i].previous_hash = c[i - 1].hash

Absent == [state |-> "absent", chain |-> <<>>]
Torn   == [state |-> "torn", chain |-> <<>>]
Whole(c) == [state |-> "whole", chain |-> c]

(* What __init__ makes of the file in a life of the server: a file that is *)
(* missing or does not parse gives a new chain, with a genesis block that  *)
(* nobody saves before the first message.                                  *)
Load(d, life) == IF d.state = "whole" THEN d.chain ELSE <<Genesis(life)>>

Critical == {"mine", "append", "open", "write", "release"}

-----------------------------------------------------------------------------
Init ==
    /\ up = TRUE /\ chain = <<Genesis(0)>> /\ disk = Absent
    /\ lock = NoThread
    /\ pc = [t \in Threads |-> "idle"]
    /\ msg = [t \in Threads |-> 0]
    /\ block = [t \in Threads |-> Genesis(0)]
    /\ sends = 0 /\ crashes = 0
    /\ acked = {} /\ saved = TRUE

At(t, place) == up /\ pc[t] = place
Goto(t, place) == pc' = [pc EXCEPT ![t] = place]

(* _handle_send_message up to the lock: the message is encrypted, hashed.  *)
Send(t) ==
    /\ At(t, "idle") /\ sends < MaxSends
    /\ sends' = sends + 1
    /\ msg' = [msg EXCEPT ![t] = sends + 1]
    /\ Goto(t, "acquire")
    /\ UNCHANGED <<up, chain, disk, lock, block, crashes, acked, saved>>

(* A variant of Acquire without the lock. *)
AcquireNothing(t) ==
    /\ At(t, "acquire")
    /\ lock' = t
    /\ Goto(t, "mine")
    /\ UNCHANGED <<up, chain, disk, msg, block, sends, crashes, acked, saved>>

Acquire(t) ==
    /\ At(t, "acquire") /\ lock = NoThread
    /\ lock' = t
    /\ Goto(t, "mine")
    /\ UNCHANGED <<up, chain, disk, msg, block, sends, crashes, acked, saved>>

(* add_message_block up to the end of mine_block, which takes its time. *)
Mine(t) ==
    /\ At(t, "mine")
    /\ block' = [block EXCEPT ![t] = NewBlock(chain, msg[t])]
    /\ Goto(t, "append")
    /\ UNCHANGED <<up, chain, disk, lock, msg, sends, crashes, acked, saved>>

AppendBlock(t) ==
    /\ At(t, "append")
    /\ chain' = Append(chain, block[t])
    /\ Goto(t, "open")
    /\ UNCHANGED <<up, disk, lock, msg, block, sends, crashes, acked, saved>>

(* save_blockchain_temp: open(..., "w") empties the file ... *)
OpenFile(t) ==
    /\ At(t, "open")
    /\ disk' = Torn
    /\ Goto(t, "write")
    /\ UNCHANGED <<up, chain, lock, msg, block, sends, crashes, acked, saved>>

(* A variant that writes the chain as it was before the new block. *)
WriteStaleFile(t) ==
    /\ At(t, "write")
    /\ disk' = Whole(SubSeq(chain, 1, Len(chain) - 1))
    /\ saved' = TRUE
    /\ Goto(t, "release")
    /\ UNCHANGED <<up, chain, lock, msg, block, sends, crashes, acked>>

(* ... and json.dump with the close at the end of the block fills it. *)
WriteFile(t) ==
    /\ At(t, "write")
    /\ disk' = Whole(chain)
    /\ saved' = TRUE
    /\ Goto(t, "release")
    /\ UNCHANGED <<up, chain, lock, msg, block, sends, crashes, acked>>

(* A variant of SaveFails where the error leaves without the lock's release. *)
SaveFailsLocked(t) ==
    /\ DiskFails
    /\ At(t, "open") \/ At(t, "write")
    /\ saved' = FALSE
    /\ Goto(t, "answer")
    /\ UNCHANGED <<up, chain, disk, lock, msg, block, sends, crashes, acked>>

(* Either step raises; the error is returned and nobody looks at it. *)
SaveFails(t) ==
    /\ DiskFails
    /\ At(t, "open") \/ At(t, "write")
    /\ saved' = FALSE
    /\ Goto(t, "release")
    /\ UNCHANGED <<up, chain, disk, lock, msg, block, sends, crashes, acked>>

Release(t) ==
    /\ At(t, "release")
    /\ lock' = NoThread
    /\ Goto(t, "answer")
    /\ UNCHANGED <<up, chain, disk, msg, block, sends, crashes, acked, saved>>

(* A variant of Answer that reads the chain again, outside the lock. *)
AnswerFromChain(t) ==
    /\ At(t, "answer")
    /\ acked' = acked \cup {[msg |-> msg[t], index |-> Latest(chain).index,
                                 life |-> crashes]}
    /\ Goto(t, "idle")
    /\ UNCHANGED <<up, chain, disk, lock, msg, block, sends, crashes, saved>>

(* The success answer with its block_index. *)
Answer(t) ==
    /\ At(t, "answer")
    /\ acked' = acked \cup {[msg |-> msg[t], index |-> block[t].index,
                                 life |-> crashes]}
    /\ Goto(t, "idle")
    /\ UNCHANGED <<up, chain, disk, lock, msg, block, sends, crashes, saved>>

(* The chain is gone with the process; the variable keeps its last value   *)
(* for the properties, and no step reads it before Restart replaces it.    *)
Crash ==
    /\ up /\ crashes < MaxCrashes
    /\ up' = FALSE
    /\ crashes' = crashes + 1
    /\ lock' = NoThread
    /\ pc' = [t \in Threads |-> "idle"]
    /\ UNCHANGED <<chain, disk, msg, block, sends, acked, saved>>

(* MessageServer.__init__: the chain is what the file holds. *)
Restart ==
    /\ ~up
    /\ up' = TRUE
    /\ chain' = Load(disk, crashes)
    /\ saved' = TRUE
    /\ UNCHANGED <<disk, lock, pc, msg, block, sends, crashes, acked>>

Step(t) ==
    \/ Acquire(t) \/ Mine(t) \/ AppendBlock(t) \/ OpenFile(t) \/ WriteFile(t)
    \/ SaveFails(t) \/ Release(t) \/ Answer(t)

Next ==
    \/ \E t \in Threads : Send(t) \/ Step(t)
    \/ Crash \/ Restart

Spec == Init /\ [][Next]_vars

(* A thread that is not waiting for the lock is never stopped for good;    *)
(* nobody is obliged to send or to crash.                                  *)
FairSpec == Spec /\ \A t \in Threads : WF_vars(Step(t))

-----------------------------------------------------------------------------
(* Properties.                                                             *)

(* The lock is held by the one thread between taking it and giving it back. *)
LockHeld == \A t \in Threads : pc[t] \in Critical <=> lock = t

(* Every variable keeps its type; digests are numbers in the checks.       *)
TypeOK ==
    /\ up \in BOOLEAN /\ saved \in BOOLEAN
    /\ chain \in Seq(Block) /\ chain # <<>>
    /\ disk \in [state : {"absent", "torn", "whole"}, chain : Seq(Block)]
    /\ lock \in Threads \cup {NoThread}
    /\ pc \in [Threads -> {"idle", "acquire", "answer"} \cup Critical]
    /\ LockHeld
    /\ msg \in [Threads -> Nat] /\ block \in [Threads -> Block]
    /\ sends \in Nat /\ crashes \in Nat
    /\ acked \in SUBSET [msg : Nat, index : Nat, life : Nat]

(* What VERIFY_BLOCKCHAIN would find is always intact: across concurrent   *)
(* senders, failed saves, deaths in the middle of a save and restarts from *)
(* whatever the file then holds (add_message_block, _restore_from_dict).   *)
ChainValid == IsChainValid(chain)

(* The file d gives a start-up all of chain c; only a chain without        *)
(* messages may be lost, for a new one under another genesis block.        *)
GivesBack(d, c) == IF d.state = "whole" THEN d.chain = c ELSE Len(c) = 1

(* Whenever no sender is at work and the last save did not fail, a restart *)
(* brings every block back, once there is a message in the chain           *)
(* (_save_to_storage against __init__).                                    *)
RestartLosesNothing ==
    up /\ lock = NoThread /\ saved => GivesBack(disk, chain)

(* "Temporary blockchain storage - cleared on restart", the note that      *)
(* save_blockchain_temp writes into the file: a start-up would begin with  *)
(* the genesis block alone.                                                *)
ClearedOnRestart == [][~up /\ up' => Len(chain') = 1]_vars

(* The messages of the chain, without the genesis block, and the promises  *)
(* of this life: the chain as its users see it.                            *)
log == [i \in 1..(Len(chain) - 1) |-> chain[i + 1].data]
promises == {[msg |-> a.msg, index |-> a.index] : a \in {b \in acked : b.life = crashes}}

Promised == INSTANCE AppendLog WITH Message <- 1..MaxSends

(* As long as the server lives, the ledger only grows at its end, and the  *)
(* block_index told to a sender is where the message is; a death cuts it   *)
(* back to a prefix of itself, never to anything else (add_message_block   *)
(* and _handle_send_message against __init__ on whatever the file holds).  *)
ImplementsLog == Promised!Spec

(* Every sender waiting for the lock is answered, or dies with the server: *)
(* the lock is given back whatever the disk does (messages are finitely    *)
(* many, so no sender is passed over for ever).                            *)
EverySendAnswered ==
    \A t \in Threads : (pc[t] = "acquire") ~> (pc[t] = "idle")
=============================================================================

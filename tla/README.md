# Academic Research Collaborator: a TLA+ model

The repository (`src/`) is a client and a multi-threaded server for two
researchers who exchange messages over a home-made secure channel and keep them
in a hash-chained log. This directory holds TLA+ models of its parts, TLC
configurations that check them on small instances, and TLAPS proofs of the
results that matter most. Paths below are relative to `src/`.

## 1. The system

| Component | State it keeps | Operations |
|---|---|---|
| Secure session (`core/secure_protocol.py`, `core/postquantum.py`, `core/aead.py`) | one `SecureSession` per end and connection: DH pair, session key, nonce counter, messages since the last rotation, creation time | create, handshake, seal, open, rotate, complete, destroy |
| Client (`client_research.py`) | socket, `secure_mode`, `username`; one sequential program | connect, commands, receive, rotate, decrypt a message, disconnect |
| Connection threads (`server_research.py`, `_handle_client`) | locals `username`, `session_id`, `secure_mode` | one turn per received frame; cleanup in `finally` |
| Presence (`MessageServer.clients`, `.sessions`) | user to socket, session id to user | login, cleanup, notification, list of users |
| Research ledger (`core/blockchain.py`, `blockchain_temp.json`) | the chain in memory, the copy on disk, `self.lock` | append and mine, save, verify, restore |
| User accounts (`core/authentication.py`, `core/storage.py`, start-up in `server_research.py`) | `users`, `users.json`, `integrity.json`, ElGamal keys and KDC | register, login, save, load, verify digest, start |
| Account sessions (`active_sessions` in `core/authentication.py`, `SecureSessionManager` in `core/security_utils.py`) | two maps from ids to sessions | login, logout, create, validate, end |
| Key manager (`core/km.py`) | keys with use counts, marks and revocation; rotation history | create, get, rotate, revoke; not used by the programs |
| Certificates (`core/pki_certs.py`) | four files | generate all of them, or take what is there |
| Message ciphers (`core/classical_ciphers.py`, `core/modern_ciphers.py`) | none | Caesar, Vigenere, XOR stream, small block cipher |
| Number theory, ElGamal, classic exchange (`core/crypto_math.py`, `core/elgamal.py`, `core/key_exchange.py`) | none | gcd, inverse, power, primes, roots; key pair, encrypt, decrypt; shared secret |
| Hashing (`core/hashing.py`) | none | wrappers of `hashlib` and `hmac` |

Interaction. Client and server thread talk over TCP, one JSON object per
`send`, with no framing: a `recv` that returns two objects, or a part of one,
fails to parse. A thread that carries out SEND_MESSAGE pushes a notification
into the *other* user's socket, between that user's answers. All client threads
share `MessageServer`'s maps and the ledger under `self.lock`, and the accounts
under no lock. The text of a message is encrypted by the sender's server thread,
with a key the sender typed or is told, and decrypted by the reader's client.
Certificates are made by whichever server starts first, before it owns its port.
Threads are daemons: the process ends without waiting for them.

What is hard here: answers, notifications, partial answers and timeouts
interleave on a stream without request ids; the two ends rotate keys in four
steps and do not confirm; both ends count messages and nonces separately;
connections of one user overlap; every file is truncated before it is written,
by any number of threads or processes, and any of them may die at any point; ids
of sessions and keys collide or are overwritten in long sequences of legal calls.

What makes each part correct:

* Session and channel: no key and nonce pair seals twice; the ends agree on the
  key; a key seals a bounded number of messages; each command gets its own
  answer; a receive ends; sessions are destroyed on both sides.
* Presence: the latest login of a user is reachable, a user who left is not
  online, and what stays in the maps belongs to nobody who is still served.
* Ledger: the chain verifies; a sender's acknowledgement names the block the
  message is in; while the server lives nothing acknowledged is rewritten; a
  restart loads a prefix, and every block if nothing was being written.
* Accounts: a restart finds the accounts; counts are counts of logins; every
  key belongs to an account; the digest is the file's.
* Account sessions: a logout ends an entry of the right user, and is refused
  only when there is none; a session that was created is valid until it ends.
* Key manager: a revoked key does not come back; the mark of a rotated key leads
  to a newer key and agrees with the history; only a rotation replaces a key.
* Certificates: what a server goes on with was generated together, and stays.
* Ciphers and arithmetic: what is encrypted decrypts to itself; a wrong result is
  noticed; the number theory computes what its names say.

## 2. Modules

| Module | What it is |
|---|---|
| `SecureSession` | `SecureSession` and `EphemeralDH` as operators on a session record |
| `SecureChannel` | client, server thread and the two byte streams between them |
| `AppendLog` | abstract: an append-only log with promises, that may go down and come back shorter |
| `Ledger`, `MCLedger` | chain, lock, file, crash and restart |
| `Presence`, `MCPresence` | many connections, the maps `clients` and `sessions` |
| `UserStore`, `MCUserStore` | login and save in several threads, start-up, crash |
| `AccountSessions`, `MCAccountSessions` | `active_sessions` and the session manager in front of it |
| `KeyManager`, `MCKeyManager` | keys under ids, rotated and revoked |
| `Certificates`, `MCCertificates` | four files, several servers, starts and deaths |
| `NumberTheory`, `PublicKeys`, `Ciphers` | the pure functions, as operators |
| `CryptoCalls`, `MCCryptoCalls` | calls of them, and a message from its sender to its reader |
| `SecureChannelProofs`, `LedgerProofs`, `PresenceProofs`, `UserStoreProofs`, `AccountSessionsProofs`, `KeyManagerProofs`, `CertificatesProofs`, `CryptoCallsProofs` | theorems about the module of that name |

`SecureChannel` EXTENDS `SecureSession`; `CryptoCalls` EXTENDS `PublicKeys` (on
`NumberTheory`) and `Ciphers`; `Ledger` INSTANCEs `AppendLog` with `up`, `log`
and `promises` as its refinement mapping. The `MC` modules only give the
constants values. Operators introduced as "A variant of ..." are plausible slips
in the code; no specification uses them, and each one makes a property fail when
put in place of the definition it varies (`mutants` in `PROJECT.json`).

### SecureChannel

The client's `cpc` is the point where it is: `start`, `handshake`, `idle` (at a
menu), `await` (in the receive of a command), `rotating`, `resend` (back in
`_send_secure_command` after a rotation), `closing`, `closed`. Between two
blocking calls the client runs alone, so `BeginCommand`, `RotateManually` and the
answers each take one step. The server thread only blocks in `recv`, so one
action is one turn of its loop, with one disjunct per branch.
A frame carries the number of the frame it answers (`rid`), which the code does
not have: the properties use it, and no guard does. A `recv` takes any number of
frames that have arrived; more than one do not parse. `Faults` selects the
disturbances: notifications; the 15 s timeout; sessions turning an hour old
(`Age`, the client's first because it is created first); a keyboard interrupt in
a receive; and frames that are longer than a `recv(32768)` or that `send` has
written in part. `ReplyInPieces` turns an answer into any number of frames of
type PIECE, within `MaxLong`: none parses, and each but the first is the answer
that a later command finds. `ServerReceivePart` is a receive of the server that
cuts a request: each piece is answered with an error. An interrupt at the menu or
in a receive enters `disconnect` from `run`, and one in a receive of that
`disconnect` (of the rotation before its LOGOUT) enters it again from `main`:
`left` counts the handlers that are left, and with none left the process ends.
The recursion of `_send_secure_command` is a depth, bounded
by `RecursionLimit` as the interpreter bounds it.

Data is abstracted to what the properties distinguish: a private exponent is the
number of pairs its owner has drawn, a session key the pair of the two private
numbers, a ciphertext the key that sealed it. The session key has two owners, the
session (`key`) and the `EphemeralDH` that derived it (`copy`); `destroy`
overwrites only the first. Commands are of three kinds: those
that go through the secure channel (REQUEST, LOGIN), the two views that always go
in clear (VIEW), and LOGOUT, which in secure mode the server does not know.

### Ledger and AppendLog

One action per step of `_handle_send_message` between which another thread or
a crash can make a difference: take the lock, mine, append, truncate the file,
write it, release, answer. `Hash` is a constant, any function of index, data and
previous hash: mining is a search, whose result is a function of the block.
`Genesis` takes the life of the server, because the genesis block carries the time
of the start that made it; nobody saves it before the first message.
`Crash` drops everything but the file; `Restart` is `__init__`.
A file is absent, torn or whole; only a whole one passes `load_blockchain_temp`.

`AppendLog` says what users may rely on: messages are put at the end of the log,
an acknowledgement names a message's place, and both hold for the life of the
server. When it goes down its promises are void, and it comes back with a prefix
of the log, not counting the genesis block. That a prefix is all one gets is a
property of the code: a death between truncation and writing costs messages that
had been acknowledged.

### Presence

A connection stands for its socket, its server thread and its session id.
The client's mode is secure or basic (handshake answer missed); only a LOGIN in
clear sets the thread's `username`, and `finally` cleans up by that name. A LOGIN
may be repeated on one connection. `stop()`, which closes the sockets as the
process ends, is left out.
`DestroySession` and `Unregister` are separate: another thread may log the same
user in between.

### UserStore

`login` is steps: read the count, write it, copy the accounts one by one,
truncate `users.json`, write it, read `integrity.json`, truncate it, write it.
Registration at start-up is the same save, in the main thread.
`Overwritten` is what two writers with open files do to each other: the text
written last replaces as many bytes as it has. Lengths differ by the digits of
the login counts; `Base` is 10 in the code and 2 in the checks, so that two
logins, and not ten, reach the boundary. Files that fail to parse load as no
accounts. `keys.json` is never written: `save_user_keys` cannot encode its
argument (the repository's own `data/` has no such file), so `Boot` gives every
loaded account a new key.

### AccountSessions

`active_sessions` is a dict, modelled as the sequence of its keys in insertion
order, because `logout` by username deletes the first entry it meets. `Login`
reads the clock, which may not have moved since the last login, and makes the two
entries of the code, one under the digest of name and clock and one under the
name. `Logout` looks for its argument as a key and then as a username.
`CreateSecureSession` draws an id of the manager's own; `EndSession` forgets it
and passes it on to `logout`, known or not. Validation changes nothing. A key is
written as what it was made from. The two kinds of id cannot meet in the code
either, being cut to 16 characters and 64 long; that hashes of different strings
differ, and are no usernames, is assumed.

### KeyManager

`store` is `_store` and `history` is `_rotation_history`. Key material is named by
the number of its draw, so newer material has a larger number. An id is given or
drawn, and a drawn one is fresh. `RotateKey` puts its mark on the entry found
under the old id at the beginning, which is no longer in the store when the new
id is the same; it does not ask whether the new id exists.

### Certificates

Each server goes through `ensure_certificates`: look whether all four files are
there; if not, open (truncate) and write them one after the other. A file is
absent, empty, garbled or whole, and a whole one is of the start that wrote it:
the material of one start fits together. Servers run side by side, since the port
is bound only later; they may die anywhere and start again. `overlapped`
remembers that two have generated at once.

### CryptoCalls

One variable, `call`: the last call with arguments and answer. Random choices
are sets of outcomes: the bases of `is_prime`, the candidates of
`generate_prime`, exponents and keys. A message goes through `SendMessage`
(encrypt, hash, and tell the sender the key) and `ReadMessage` (decrypt with what
the sender was told, hash, compare). A hash is an injective function: the text
itself. Texts are sequences of code points: ASCII, and of the other letters one of
each kind that matters here, an accented one in both cases, one whose upper case
is two letters (for which Caesar's `ord` raises, and `SendFails` is the answer),
and two whose upper case is among the 26. Blocks are bytes. `Decrypt` of a number
raises always, because of its import. What
the code computes with loops and recursion are recursive functions here, the
texts are joined with folds, and exclusive or is taken bit by bit, so that
theorems can be about all of it.

## 3. Runs

| Run | Question | Bounds, and why they suffice |
|---|---|---|
| `ChannelAged` | limits, waits, recursion and cleanup when sessions age and the user interrupts | limit 2 messages, 4 frames before the last command, recursion 2, 1 notification, interrupts anywhere: a rotation by count, a nest of rotations by age up to the limit, and a disconnect's own rotation interrupted once and twice |
| `ChannelDisturbed` | nonces, agreement, pairing of answers and waits with every other disturbance together | limit 2, 4 frames before the last command, 2 notifications (two can arrive at once), 2 timeouts, 2 more pieces (an answer in three, or two frames in two), interrupts: lags across a rotation that fails and one that does not |
| `LedgerServed` | does the ledger refine `AppendLog`, is everyone answered, what does a restart find | 2 threads, 4 sends, 2 crashes, failing saves: a torn file, a restart on it and another one, with sends in each life |
| `PresenceServed` | who is reachable, who goes offline, what stays in the maps | 2 users, 2 connections, both modes: an old and a new connection of one user, and a connection that logs in both |
| `UsersTogether` | accounts across overlaps, failing saves, crash, restart | 2 threads, 3 logins, 1 crash, base 2: overlapping saves of different lengths, then a restart on the result |
| `SessionsManaged` | what logouts accept, end and refuse | 2 users, 3 readings of the clock, 1 managed session: equal and different ids of one user, and every order of logouts |
| `KeysManaged` | marks, history and revocation | 3 ids, 4 keys, 1 use: rotation onto a free, a used, a revoked and the same id, in chains of three |
| `CertificatesReady` | which certificates are accepted, and do they stay | 2 servers, 4 starts: a death inside a generation, one inside the next, and a start beside each |
| `CallsAnswered` | arithmetic, key pairs and ciphers against their definitions | see below |

Disagreements between the code and what the repository says of it at the line
named. The first three are runs of `PROJECT.json`. The others are the same kind of
counterexample, in configurations kept beside them, which TLC refutes in a few steps
(`tlc -config UsersMissing.cfg MCUserStore`): what they show is also what the
passing runs leave room for, or say outright (`RestartLosesNothing`,
`LogoutEndsOne`, `PowersAgree`, `GcdsAgree`). The bounds are the smallest that reach
the state, or those of the passing run.

| Configuration | What the code does | Said at |
|---|---|---|
| `ChannelSharedNonce` | both directions use one key and count nonces from 1 | `core/aead.py:53` |
| `PresenceStale` | a secure login is online for ever | `client_research.py:280` |
| `UsersGarbled` | overlapping saves garble `users.json` | `core/storage.py:77` |
| `ChannelKeyKept` | a destroyed session's key stays in its `EphemeralDH` | `core/postquantum.py:45` |
| `LedgerRestarted` | the chain comes back at a restart | `core/storage.py:228` |
| `PresenceErased` | a served user is listed as offline, erased by the thread of an older connection | `client_research.py:280` |
| `UsersUnprotected` | after a death in the save of the digest no digest is ever saved again | `README.md:21` |
| `UsersMissing` | after a death between the registrations the second user never exists | `server_research.py:198` |
| `SessionsLoggedOut` | a logout leaves the user's other entry active | `core/authentication.py:102` |
| `SessionsCreated` | a managed session never validates | `core/security_utils.py:198` |
| `CertificatesMixed` | two servers leave certificates of two generations | `core/pki_certs.py:82` |
| `CertificatesEmpty` | an empty certificate is taken for an existing one | `core/pki_certs.py:142` |
| `PowersDocumented` | `power_mod(b, 0, 1)` is 1 | `core/crypto_math.py:93` |
| `InversesDocumented` | `mod_inverse(a, 1)` is 0 | `core/crypto_math.py:35` |
| `NumbersOpened` | `ElGamal.decrypt` always raises | `core/elgamal.py:92` |

`CallsAnswered` enumerates arguments instead of behaviours: 0 to 20 for the gcds,
exponents, bases and moduli up to 9, candidates for primes up to 100 with every
draw of bases, key pairs of 2 to 5 bits with every number sealed under every
exponent, and texts of 1, 2, 7, 8 and 9 characters with keys of 1, 3, 8, 9 and
17, which lie on both sides of every length where the ciphers pad, cut and wrap.
25 is among the 5-bit numbers: some base takes it for a prime, and the pair
that is made of it is checked like the others. Three texts have letters whose
upper case is special.

The channel, ledger and user models cap frames, sends, logins and disturbances
in the guards of the steps that start something, never in a step that finishes
it, so liveness is not an artefact of a bound. Deadlock checking is off where a
model may legitimately stop (the user leaves, the senders have sent, the draws
are used up) and on in `SessionsManaged` and `CallsAnswered`, which never stop.
Symmetry is used only where no liveness is checked.

The properties, and where they stop being true:

* `NonceUnique` holds per end. Across ends it is false (`ChannelSharedNonce`).
* `KeysAgree`, `ServerNeverAtLimit` and `KeyUsageBound` hold while no receive was
  cut short (`InStep`). Two notifications in one `recv`, a frame in pieces or a
  timeout shift every later answer by one. A rotation then completes with a stale
  public key and reports success while the keys differ.
* An interrupt also ends a receive early, and `InStep` excludes the LOGOUT it leads
  to. That is not only the end of the connection: in an aged session the LOGOUT
  is preceded by an automatic rotation, so an interrupt inside an automatic
  rotation is followed by a second one, which takes the answer to the first for its
  own and reports success with a key the server does not have.
* A rotation whose answer is lost, as happens when one notification is read
  together with it, zeroes the client's count and keeps the key, which then seals
  up to the limit once more. `KeyUsageBound` therefore bounds the server's uses of
  a key whenever the ends are in step, and the client's while nothing was pushed.
* `LagBounded` says how far: one answer per receive cut short. A frame in n pieces
  cuts n - 1 short, and an answer may have any number of them, as the chain and
  the messages grow without bound.
* `SessionsDestroyed` says what `destroy` does: the session is in no table, its pair
  is zero and its key overwritten. That the key is gone is false (`ChannelKeyKept`).
* `EveryWaitEnds` holds without the client's timeout firing: the server answers
  every frame, including those it cannot read. `NoWaitInVain` is its safety half:
  the two ends never wait on each other, even when several frames were read, and
  rejected, as one.
* `LatestLoginReachable`: the server reaches the latest login of a user or nobody,
  and nobody only after a thread that knew the name has cleaned up, because
  `finally` removes the name whoever's connection the entry now is. That this
  happens to a user who is being served is `PresenceErased`.
* `LeftoverSessions`: the entries that `sessions` never loses are of connections
  that had no login in clear; their protocol sessions are destroyed all the same.
* `ChainValid` holds through everything. `RestartLosesNothing` needs the last
  save to have succeeded and nobody to be saving; then every block comes back,
  unless there is no message yet, and a new genesis block is made. That the file
  is not cleared, as it says, is `LedgerRestarted`.
* `FirstUserServed` says only the first demo user, see `UsersMissing`.
* `CountsRealLogins` is an upper bound: counts that overlapping logins lose are
  states of the model, and nothing in the repository promises that there are none.
* `QuietServerSaved` and `DigestCurrentUntilCrash` need a life without failing
  or overlapping saves. The second also needs a first life: a death with
  `integrity.json` truncated makes every later save skip the digest
  (`UsersUnprotected`).
* `LogoutEndsOne` counts entries, not logins. Each login has two, so a user who has
  logged out keeps an active session (`SessionsLoggedOut`); and two logins of a user
  within one reading of the clock share theirs and end together.
* `RevokedNotHandedOut` is about the key, not the id: a rotation onto a revoked
  id makes the id usable again, with a new key.
* `AcceptedFitTogether` allows an empty server certificate: a death over the
  last file leaves one, and every later server accepts it, as it asks only
  whether the files exist (`CertificatesEmpty`). Two servers that generate at once
  void the rest (`CertificatesMixed`).
* `MessagesReadBack`: a message is verified just when it is shown as it was sent, in
  upper case for Caesar, and that is so unless it has a letter that its cipher
  mistakes: for Caesar one whose upper case is not among the 26 (`ı` and `ſ` become
  I and S, and verify), for Vigenere any letter beyond them. A text with `ß` is
  never sent under Caesar: the sender is told that the encryption failed.
* `PowersAgree` says of the exponent 0 what the code does: it answers 1, also where
  the docstring says 0 (`PowersDocumented`). `GcdsAgree` includes the modulus 1
  (`InversesDocumented`).
* `PeersAgree` is about what the private key can work out of a sealed number, since
  `decrypt` itself always raises (`NumbersOpened`). The mask may have no inverse when
  the modulus is no prime: `is_prime` may take a composite such as 62745 for a
  prime, and its generator need not generate then.
* `PrimalityTest` says that `is_prime` rejects no prime (`PrimesPass`) and bounds the
  bases that mislead it about a composite by a quarter.

Observations that are not findings: `created_at` is not renewed by a rotation, so
after an hour every automatic rotation is followed by another, down to the
interpreter's limit; `change_password` raises KeyError for every user, and nothing
calls it; an entry of `sessions` stays for every secure connection.

Fairness. `SecureChannel`: weak fairness of the client's own steps and of the
server thread, since nothing blocks them but an empty stream; none for the user,
the disturbances and the timeout. `Ledger`: weak fairness per thread; `Acquire`
is under weak fairness only, which is all a `threading.Lock` gives, and suffices
because sends are finitely many. `Presence`: weak fairness of the server threads,
whose `recv` returns once the peer has closed. The other modules state no
liveness and no fairness.

## 4. Proofs

The theorems hold for every value of the constants; the named ASSUMEs of the
modules are their only assumptions (bounds are natural numbers, the message limit
is not 0, a value that stands for "none" is no member of its set, the demo users
are a non-empty sequence, arguments of the arithmetic are natural numbers, a key
size is not 0, texts and keys are sequences of characters, a key is not empty, and
the random bytes are bytes). `Hash` is unconstrained, except in the type theorem
of the ledger, which has its hypothesis in its statement.

`SecureChannelProofs`
* `TypeCorrect`: the type invariant is inductive as it stands. It includes the
  bound on the recursion.
* `NoncesUnique`: uniqueness is not inductive: a state with a counter behind an
  old nonce satisfies it and breaks it one step later. `NonceInv` adds
  `NoncesGrow` (no nonce in `sealed` exceeds the counter of the end that used it,
  and each end's nonces grow along `sealed`), which a step keeps because
  `rotate_key` leaves the counter alone, and `HandshakeFirst` (the handshake is
  the first frame and is sent once, and before it the server has sealed
  nothing), which is needed because a new session does start its counter again.
* `LagIsBounded`, from `LagInv`. The answers under way are counted by a tally, a
  function on the prefixes of the queue, because a count over a sequence would be
  an induction. `Within` says of every request and every answer in the two
  queues how many frames behind the last one it may be, given its place in the
  queue, the frames before it, the notifications still unread and the receives
  cut short (an answer in n pieces brings n - 1 of them, `LagReplyInPieces`; a
  request one per cut, `LagPart`): so every step, which appends or removes a few frames, keeps it.
  After an interrupt `Within` is given up; by `LogoutLast` the client then only awaits
  the rotation before its LOGOUT, and takes no answer for a command any more.
* `NeverWaitsInVain`, from `StillServed`: until the client has sent its LOGOUT or given
  up, the server thread is in its loop and no LOGOUT is on its way to it. A client
  that starts to wait has just written a frame; a turn that takes it away appends an
  answer (`RepliedUnderWay`); and a receive that takes the answer away ends the wait.
* In step, `LagInv` says more than a bound: with no receive cut short at most one
  request or answer is under way (`OneAtATime`). Hence `InStepMoves`: every step
  is one of seven moves (`Connects`, `Sends`, `Waits`, `Closes`, `Receives`,
  `Turns`, `Ends`), each with no more than one frame in it; and a state in step has
  only predecessors in step (`StaysInStep`). What follows is inductive over moves.
* `KeysStayEqual`, from `Fitting`: what is under way is what the client waits for;
  the public key in a rotation's request is that of the client's current pair,
  and the answer to it carries the share of the key the server already has.
* `ServerNotAtLimit`, from `Counting`: the server's count never exceeds the
  client's and is smaller while the client's message is under way. The client
  asks `needs_rotation` before it sends, so the server never gets there first.
* `KeyUsageIsBounded`, from `Fresh` (the pairs of a session are drawn in order, so
  a new key was not used before) and `UsesBounded` (the uses of the current key
  are at most the count). It needs `NonceInv` and `Fitting` as well.

`LedgerProofs`
* `ChainAlwaysValid`, from `LedgerInv`: `LockOK` (a thread is in the critical
  section exactly when it holds the lock) and `ChainsOK` (the chain and the
  chain in a whole file are valid, and a block about to be appended was mined
  on the chain as it is now). The lock keeps the last part true while other
  threads move.
* `RestartLossless`, with `FileCurrent` in addition: after a save that succeeded,
  and with no thread about to truncate or write the file, the file holds the chain,
  or the chain has no message.
* `LedgerImplementsLog`: `Spec => ImplementsLog`, the refinement. `LogInv` has what
  a step needs to map: a whole file is a prefix of the chain, genesis block included
  (`FileBehind`, so a restart is `ComeBack`; any other file gives an empty log); an appended block is still
  where its sender will say it is (`Placed`, so an answer is `Promise`); and
  promises of past lives are not of this one (`LivesPast`, so a crash voids them).
* `TypeCorrect`, for digest functions with numbers for values.

`PresenceProofs`
* `TypeCorrect`.
* `LatestReachable`, from `NamesKnown` (a thread knows a username only after a login
  in clear, in basic mode): who unregisters a name has cleaned up for that user,
  and stays so (`CleanedUpStays`).
* `SessionsLeftOver`: entries exist only for threads with a session id.

`UserStoreProofs`
* `TypeCorrect`, from `StoreInv`: whoever is being registered has an account, so
  every key belongs to one. The converse is not claimed.
* `NoLoginMadeUp`: `CountsInv` bounds the counts in every place where accounts
  are held (memory, the copies of the threads, the file) by the logins made, and
  the count a thread is about to write by the login it belongs to. No lock is
  needed for it, although lost counts are possible.
* `FirstUserAlwaysServed`: `FirstInv` says that no text without the first user is
  ever written; a file that does not parse loads as no accounts and leads to a
  new registration.
* `QuietServerIsSaved` and `DigestIsCurrent`, from `SavedInv`: as long as nothing has
  failed or overlapped, either the server is quiet with the right file, or exactly
  one worker is between its login or registration and the end of its save, and
  its program counter says what each file holds (`Working`). The save starts from an
  empty file, so what an earlier life left there does not matter; for the digest it
  does, and only the first life is covered.

`AccountSessionsProofs`
* `TypeCorrect` (with: no key twice), `RefusalsJustified`, `OneEnded`.

`KeyManagerProofs`
* `TypeCorrect`, `ReplacementsNewer`, `HistoryTells`, `RevocationHolds`,
  `RotationsReplace`. The invariant adds `Distinct` (no two ids hold one key) and
  `RevokedMarked` (a revoked key that is still stored carries its mark), without
  which a revoked key could be stored a second time, unmarked.

`CertificatesProofs`
* `TypeCorrect`, `AcceptedTogether`, `CertificatesKept`. While no two servers have
  generated at once there is `OneGenerator`, the files behind it are whole and
  its own (`Behind`), the one it has open is empty (`Opened`), and the last file
  tells (`LastTells`): once it exists the others fit together and nobody else
  begins. `ReadyWithLast` carries that to the servers that have gone on.

`CryptoCallsProofs`

The calls are pure, so the work is in the operators: what they compute for all
arguments. Two things make that provable with first-order provers. An induction
is over a set: the numbers (or sequences, or whatever has a measure) that have
the property are a set `P`, and by the least element of what is outside `P`
(`MeasureInduction`, from the library's `WFMin`) nothing is outside. And a recursive
function is what its definition says because there is such a function, whenever
the argument decreases (`RecursionDefined`: the approximations that are right
below n exist for every n, and agree).

* `GcdsAgreeHolds`: a step of Euclid's algorithm keeps the common divisors (`DividesMod`),
  the extended one keeps Bezout's identity, and so `mod_inverse` finds an inverse
  exactly when there is one, and the only one (`InversesOfModulo`); the modulus 0 has
  none.
* `PowersAgreeHolds`: from the algebra of powers of a modulus (`PowerOfSum`,
  `PowerOfPower`), square-and-multiply multiplies what it starts from by the power
  (`SquareAndMultiplyIsPower`).
* `PrimesPassHolds`, from `PrimesAccepted`: under a prime the squares of a round end in
  a^(p-1) = 1 (`HalvedPower`, `Fermat`), and before the first 1 among them is -1,
  because 1 has no other roots (`RootsOfOne`, from Euclid's lemma `PrimeDivides`).
* `PeersAgreeHolds`: the invariant that is inductive (`PeersInv`) adds that a pair in use
  was made by `generate_keys`, and a ciphertext by `encrypt` for that pair. That the
  generator reaches every element (`GeneratorReachesAll`) needs three results. The
  order of an element divides p - 1: the elements fall into orbits of that many
  (`OrderDividesSize`; this is also where `Fermat` comes from). Trial division
  misses no prime factor: after round i nothing up to i divides what is left
  (`Sieved`), and what is left above the root is a prime (`PrimeFactorsComplete`).
  And an order that is a proper divisor of p - 1 would divide (p - 1)/q for one of
  those factors q, which `find_primitive_root` has ruled out (`GeneratorOrder`).
  `SealOpens` then cancels the mask; with a modulus that is no prime either it has
  an inverse all the same, or `mod_inverse` would raise.
* `MessagesReadBackHolds`: the inductive invariant (`MessagesInv`) adds what a message
  under way is made of, cipher by cipher. UTF-8 is read back (`EncodeReadBack`) by
  induction on the text: one more character appends one or two bytes, and these
  do not change what the bytes before them decode to. Padding is taken off again
  and blocks are cut where they were joined (`PadUndone`, `BlocksJoined`), a block
  is decrypted step by step (`BlockUndone`, `XorUndone` over the eight bits), and
  the classical ciphers are undone exactly when no letter is mistaken
  (`CaesarUndone`, `VigenereUndone`).

Every invariant and every action property of the runs is thus a theorem, and so is
the refinement, with one exception. Only model-checked are:

* the second half of `PrimalityTest`, that at most a quarter of the bases mislead
  `is_prime` about an odd composite. This is Rabin's theorem, which rests on the
  structure of the units of every modulus; the first half, `PrimesPass`, is proved;
* the liveness properties `EveryWaitEnds`, `SessionsDestroyed`, `EverySendAnswered` and
  `BasicUserGoesOffline`: the prover has no rules for fairness and ENABLED;
* what the violated properties show, which are counterexamples.

## 5. Not modelled

* `core/hashing.py`: wrappers of library functions; digests are functions in the
  models that use them. The arithmetic of `core/aead.py`: a ciphertext opens under
  the key that sealed it. `PostQuantumKEM`, which nothing calls.
* The rest of `core/security_utils.py`: password strength, sanitising and the like
  have no state; `backup_with_verification` and `secure_delete_data` call functions
  of `SecureStorage` that do not exist or return something else.
* `change_password`, `clear_data`, `verify_storage_integrity` and the helpers of the
  blockchain that query or that nothing calls.
* X.509 contents, lifetimes of certificates, TLS: no program opens a TLS connection.
* Strings as numbers in ElGamal and `decrypt_to_string`, the KDC operations the
  server never calls, and `encrypt`/`decrypt` of the ciphers with a key argument.
  Exceptions in the middle of a cipher (which leave a Caesar shift negated).
* Menus, printing, prompts.

## 6. What could come next

1. That `find_primitive_root` answers for every prime, which no run or theorem
   says beyond the sizes of `CallsAnswered`: it needs the number of roots of a
   polynomial under a prime modulus.
2. The change of a password and the verification of the storage, once the code
   that reaches them works.

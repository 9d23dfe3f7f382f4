-------------------------- MODULE ShadowsocksStream --------------------------
(***************************************************************************)
(* The Shadowsocks AEAD stream (server/utils/ss-transport.ts), one         *)
(* direction of it: a salt, then for each payload an encrypted length and  *)
(* the encrypted payload, each under the next nonce.  The peer encodes as  *)
(* encryptPayload() does, and consume() takes apart what arrives in        *)
(* segments of any length.                                                 *)
(*                                                                         *)
(* A byte on the wire is a record: byte `at` of the salt, which is unit 0, *)
(* or of what was encrypted under nonce n, unit n + 1.  Decryption         *)
(* succeeds only on all bytes of a unit, in order, under its nonce.        *)
(***************************************************************************)
EXTENDS Naturals, Sequences, SequencesExt

CONSTANTS
    Writes,      \* lengths a caller may write at once
    MaxWritten,  \* bound of the model on the bytes written
    MaxPayload,  \* MAX_PAYLOAD
    SaltLength,  \* keyLength of the cipher
    TagLength,   \* TAG_LENGTH
    NoLength     \* pendingLength = null

ASSUME StreamAssumption ==
    /\ Writes \subseteq Nat
    /\ MaxPayload \in Nat \ {0}
    /\ SaltLength \in Nat \ {0}
    /\ TagLength \in Nat
    /\ NoLength \notin Nat

VARIABLES
    written,    \* plaintext bytes written
    sendNonce,  \* the sender's nonce counter
    lengths,    \* what the sender encrypted under each length nonce
    wire,       \* bytes on their way
    buffer,     \* recvBuffer
    keyed,      \* recvCipher # null
    recvNonce,  \* the receiver's nonce counter
    pending,    \* pendingLength
    got,        \* plaintext bytes passed on
    dead        \* the stream was destroyed with an error

streamVars == <<written, sendNonce, lengths, wire, buffer, keyed, recvNonce, pending, got, dead>>
\* Two bytes of length and a tag.
HeaderSize == 2 + TagLength

Salt == [i \in 1..SaltLength |-> [unit |-> 0, at |-> i]]
Unit(n, size) == [i \in 1..size |-> [unit |-> n + 1, at |-> i]]

StreamInit ==
    /\ written = 0 /\ got = 0
    /\ sendNonce = 0 /\ recvNonce = 0
    /\ lengths = <<>>
    /\ wire = Salt
    /\ buffer = <<>>
    /\ keyed = FALSE
    /\ pending = NoLength
    /\ dead = FALSE

-----------------------------------------------------------------------------
\* Lengths of the payloads a write of n bytes is split into.
Split(n) ==
    LET full == n \div MaxPayload
    IN  [i \in 1..full |-> MaxPayload]
        \o IF n % MaxPayload = 0 THEN <<>> ELSE <<n % MaxPayload>>

\* encryptPayload(), the k-th of a write: two units under two nonces.
Encrypted(parts, k) ==
    Unit(sendNonce + 2 * (k - 1), HeaderSize)
    \o Unit(sendNonce + 2 * (k - 1) + 1, parts[k] + TagLength)

\* _write()
Write ==
    \E n \in Writes :
        /\ written + n <= MaxWritten
        /\ LET parts == Split(n)
           IN  /\ wire' = wire \o FlattenSeq([k \in 1..Len(parts) |-> Encrypted(parts, k)])
               /\ lengths' = lengths \o parts
               /\ sendNonce' = sendNonce + 2 * Len(parts)
        /\ written' = written + n
        /\ UNCHANGED <<buffer, keyed, recvNonce, pending, got, dead>>

-----------------------------------------------------------------------------
(* consume(): the state of the receiver is the record c.                   *)

Receiver(bytes) ==
    [buffer |-> buffer \o bytes, keyed |-> keyed, nonce |-> recvNonce,
     pending |-> pending, got |-> got, state |-> "running"]

Rest(c, n) == SubSeq(c.buffer, n + 1, Len(c.buffer))

\* decrypt() of the first n bytes.
Decrypts(c, n) == SubSeq(c.buffer, 1, n) = Unit(c.nonce, n)

TakeSalt(c) ==
    IF Len(c.buffer) < SaltLength THEN [c EXCEPT !.state = "starved"]
    ELSE [c EXCEPT !.buffer = Rest(c, SaltLength), !.keyed = TRUE]

TakeLength(c) ==
    IF Len(c.buffer) < HeaderSize THEN [c EXCEPT !.state = "starved"]
    ELSE IF ~Decrypts(c, HeaderSize) THEN [c EXCEPT !.state = "dead"]
    ELSE [c EXCEPT !.buffer = Rest(c, HeaderSize), !.nonce = @ + 1,
                   !.pending = lengths[(c.nonce \div 2) + 1]]

\* Faulty variant: the tag is not waited for.
TakePayloadEarly(c) ==
    LET size == c.pending + TagLength
    IN  IF Len(c.buffer) < c.pending THEN [c EXCEPT !.state = "starved"]
        ELSE IF Len(c.buffer) < size \/ ~Decrypts(c, size) THEN [c EXCEPT !.state = "dead"]
        ELSE [c EXCEPT !.buffer = Rest(c, size), !.nonce = @ + 1,
                       !.pending = NoLength, !.got = @ + c.pending]

TakePayload(c) ==
    LET size == c.pending + TagLength
    IN  IF Len(c.buffer) < size THEN [c EXCEPT !.state = "starved"]
        ELSE IF ~Decrypts(c, size) THEN [c EXCEPT !.state = "dead"]
        ELSE [c EXCEPT !.buffer = Rest(c, size), !.nonce = @ + 1,
                       !.pending = NoLength, !.got = @ + c.pending]

Step(c) ==
    IF ~c.keyed THEN TakeSalt(c)
    ELSE IF c.pending = NoLength THEN TakeLength(c) ELSE TakePayload(c)

\* Every round but the last uses up some of the buffer.
Consumed(c) ==
    LET turn[n \in 0..(Len(c.buffer) + 1)] ==
            IF n = 0 THEN c
            ELSE LET d == turn[n - 1]
                 IN  IF d.state = "running" THEN Step(d) ELSE d
    IN  turn[Len(c.buffer) + 1]

Consume ==
    /\ ~dead
    /\ \E n \in 1..Len(wire) :
        LET c == Consumed(Receiver(SubSeq(wire, 1, n)))
        IN  /\ wire' = SubSeq(wire, n + 1, Len(wire))
            /\ buffer' = c.buffer
            /\ keyed' = c.keyed
            /\ recvNonce' = c.nonce
            /\ pending' = c.pending
            /\ got' = c.got
            /\ dead' = (c.state = "dead")
    /\ UNCHANGED <<written, sendNonce, lengths>>

\* All has been written and read.
Drained == written = MaxWritten /\ wire = <<>> /\ UNCHANGED streamVars

StreamNext == Write \/ Consume \/ Drained

-----------------------------------------------------------------------------
\* However the wire cuts it, an untampered stream is never torn down, what is
\* passed on was written, and nothing is held back once all bytes are there.
StreamIsFaithful ==
    /\ ~dead
    /\ got <= written
    /\ wire = <<>> => got = written /\ recvNonce = sendNonce /\ buffer = <<>>

=============================================================================

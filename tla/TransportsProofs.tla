-------------------------- MODULE TransportsProofs --------------------------
(***************************************************************************)
(* Proofs about the outbound transports: how a fetch through a proxy ends, *)
(* that the Shadowsocks stream is decoded as it was encoded, and that the  *)
(* body of a response is delivered whole.                                  *)
(***************************************************************************)
EXTENDS TunnelFetch, ShadowsocksStream, SequenceTheorems, WellFoundedInduction, TLAPS

-----------------------------------------------------------------------------
(* How a fetch ends (tunnel-fetch.ts).                                      *)

TunnelInv == EndsClean /\ hops \in Nat

\* A fetch begins with no redirect followed and its own credentials.
LEMMA InitTunnelInv == TunnelInit => TunnelInv
<1> SUFFICES ASSUME TunnelInit PROVE TunnelInv
  OBVIOUS
<1>1. stage = "connecting" /\ origin = Home /\ hops = 0
  BY DEF TunnelInit
<1>2. payload => method = "POST"
  BY Zenon DEF TunnelInit
<1>3. hops \in Nat /\ hops <= MaxRedirects
  BY <1>1, MaxRedirectsAssumption
<1> QED
  BY <1>1, <1>2, <1>3 DEF TunnelInv, EndsClean, Closed

\* What the reader makes of a segment: a body that has ended has no socket.
LEMMA BecomesKeeps ==
  ASSUME TunnelInv, NEW c, Becomes(c), UNCHANGED target
  PROVE  TunnelInv'
  BY DEF TunnelInv, EndsClean, Becomes, target

\* Every step of a fetch keeps that.
LEMMA NextTunnelInv == TunnelInv /\ [TunnelNext]_tunnelVars => TunnelInv'
<1> SUFFICES ASSUME TunnelInv, [TunnelNext]_tunnelVars PROVE TunnelInv'
  OBVIOUS
<1>1. ASSUME LinkUp \/ LinkFails \/ AbortLink \/ LateLink \/ Secured \/ SecureFails
      PROVE  TunnelInv'
  BY <1>1 DEF LinkUp, LinkFails, AbortLink, LateLink, LateSocket, Secured, SecureFails,
              TunnelInv, EndsClean, Closed, target
<1>2. CASE HeadData
  <2>1. UNCHANGED target
    BY <1>2 DEF HeadData
  <2>2. UNCHANGED <<stage, socket>> \/ \E c : Becomes(c)
    BY <1>2 DEF HeadData
  <2> QED
    BY <2>1, <2>2, BecomesKeeps DEF TunnelInv, EndsClean, target
<1>3. CASE BodyData \/ ConnectionEnds \/ Breaks \/ CancelBody
  <2>1. UNCHANGED target /\ \E c : Becomes(c)
    BY <1>3 DEF BodyData, ConnectionEnds, Breaks, CancelBody
  <2> QED
    BY <2>1, BecomesKeeps
<1>4. CASE Redirect
  <2>1. CASE policy = "error" \/ hops >= MaxRedirects
    BY <1>4, <2>1 DEF Redirect, TunnelInv, EndsClean, target
  <2>2. CASE ~(policy = "error" \/ hops >= MaxRedirects)
    <3>1. stage' = "connecting" /\ hops' = hops + 1 /\ hops' \in Nat /\ hops' <= MaxRedirects
      BY <1>4, <2>2, MaxRedirectsAssumption DEF Redirect, TunnelInv
    <3>2. credentials' => origin' = Home
      BY <1>4, <2>2 DEF Redirect, StillCredentials, TunnelInv, EndsClean
    <3>3. payload' => method' = "POST"
      BY <1>4, <2>2 DEF Redirect, TunnelInv, EndsClean
    <3> QED
      BY <3>1, <3>2, <3>3 DEF TunnelInv, EndsClean, Closed
  <2> QED
    BY <2>1, <2>2
<1>5. CASE FetchStops \/ UNCHANGED tunnelVars
  BY <1>5 DEF FetchStops, tunnelVars, target, TunnelInv, EndsClean
<1> QED
  BY <1>1, <1>2, <1>3, <1>4, <1>5 DEF TunnelNext

\* However a fetch ends, it leaves no open socket, takes credentials to no
\* other origin and no body along with a GET, and follows no more than
\* MAX_REDIRECTS redirects (tunnel-fetch.ts).
THEOREM FetchEndsClean == TunnelInit /\ [][TunnelNext]_tunnelVars => []EndsClean
<1>1. TunnelInv => EndsClean
  BY DEF TunnelInv
<1> QED
  BY <1>1, InitTunnelInv, NextTunnelInv, PTL

-----------------------------------------------------------------------------
(* The stream (ss-transport.ts).  The salt is unit 0, and the k-th payload  *)
(* is sent as units 2k-1, its length, and 2k, the payload itself.  A run of *)
(* units is whole when they follow each other byte by byte.                 *)

\* A set of numbers that is not empty has a least one.
LEMMA LeastNumber ==
  ASSUME NEW T, T \subseteq Nat, T # {}
  PROVE  \E m \in T : \A k \in T : m <= k
<1> DEFINE R == {ss \in Nat \X Nat : ss[1] < ss[2]}
<1>1. IsWellFoundedOn(R, Nat)
  BY NatLessThanWellFounded DEF OpToRel
<1> HIDE DEF R
<1>2. PICK x \in T : \A y \in T : ~ (<<y, x>> \in R)
  BY <1>1, WFMin
<1>3. \A y \in T : ~(y < x)
  BY <1>2 DEF R
<1> QED
  BY <1>3

Byte == [unit : Nat, at : Nat]
Lengths == Seq(Nat \ {0})

Size(L, u) ==
  IF u = 0 THEN SaltLength
  ELSE IF u % 2 = 1 THEN HeaderSize
  ELSE L[u \div 2] + TagLength

After(L, b) ==
  IF b.at < Size(L, b.unit) THEN [unit |-> b.unit, at |-> b.at + 1]
  ELSE [unit |-> b.unit + 1, at |-> 1]

Run(q, u, v, L) ==
  /\ q \in Seq(Byte)
  /\ \A i \in 1..Len(q) : q[i].unit < v
  /\ q # <<>> => q[1] = [unit |-> u, at |-> 1]
  /\ \A i \in 1..(Len(q) - 1) : q[i + 1] = After(L, q[i])
  /\ q # <<>> => q[Len(q)] = [unit |-> v - 1, at |-> Size(L, v - 1)]
  /\ q = <<>> => u = v

\* Every unit, the salt, a header or a payload with its tag, has a size of its own.
LEMMA SizeType ==
  ASSUME NEW L \in Lengths, NEW u \in Nat, u <= 2 * Len(L)
  PROVE  Size(L, u) \in Nat \ {0}
<1>1. CASE u = 0
  BY <1>1, StreamAssumption DEF Size
<1>2. CASE u # 0 /\ u % 2 = 1
  BY <1>2, StreamAssumption DEF Size, HeaderSize
<1>3. CASE u # 0 /\ u % 2 # 1
  <2>1. u \div 2 \in 1..Len(L)
    BY <1>3, LenProperties DEF Lengths
  <2>2. L[u \div 2] \in Nat \ {0}
    BY <2>1, ElementOfSeq DEF Lengths
  <2> QED
    BY <1>3, <2>2, StreamAssumption DEF Size
<1> QED
  BY <1>1, <1>2, <1>3

\* A run is led by the unit it begins with, if that one is whole.
LEMMA FirstUnit ==
  ASSUME NEW L \in Lengths, NEW u \in Nat, NEW v \in Nat, u < v, v <= 2 * Len(L) + 1,
         NEW q, Run(q, u, v, L)
  PROVE  /\ Size(L, u) <= Len(q)
         /\ \A i \in 1..Size(L, u) : q[i] = [unit |-> u, at |-> i]
<1>0. Len(q) \in Nat /\ q \in Seq(Byte) /\ q # <<>> /\ Len(q) # 0 /\ Len(L) \in Nat
  BY LenProperties, EmptySeq DEF Run, Lengths
<1>1. Size(L, u) \in Nat \ {0}
  BY <1>0, SizeType
<1> DEFINE s == Size(L, u)
           Wrong(i) == ~(i <= Len(q) /\ q[i] = [unit |-> u, at |-> i])
           T == {i \in 1..s : Wrong(i)}
<1>2. SUFFICES ASSUME T # {} PROVE FALSE
  <2>1. \A i \in 1..s : ~Wrong(i)
    BY <1>2
  <2> QED
    BY <1>0, <1>1, <2>1
<1>3. PICK m \in T : \A k \in T : m <= k
  <2>1. T \subseteq Nat
    BY <1>1
  <2> HIDE DEF T
  <2> QED
    BY <1>2, <2>1, LeastNumber
<1>4. m \in 1..s /\ Wrong(m)
  OBVIOUS
<1>5. m # 1
  BY <1>0, <1>4 DEF Run
<1>6. m - 1 \in 1..s /\ ~Wrong(m - 1)
  <2>1. m - 1 \in 1..s /\ m - 1 \notin T
    BY <1>1, <1>3, <1>4, <1>5
  <2> QED
    BY <2>1
<1>7. m - 1 # Len(q)
  <2>1. SUFFICES ASSUME m - 1 = Len(q) PROVE FALSE
    OBVIOUS
  <2>2. [unit |-> u, at |-> m - 1] = [unit |-> v - 1, at |-> Size(L, v - 1)]
    BY <1>0, <1>6, <2>1 DEF Run
  <2>3. u = v - 1 /\ m - 1 = Size(L, v - 1)
    BY <2>2
  <2> QED
    BY <1>1, <1>4, <2>3
<1>8. q[m] = After(L, q[m - 1])
  BY <1>0, <1>1, <1>4, <1>6, <1>7 DEF Run
<1>9. q[m] = [unit |-> u, at |-> m]
  BY <1>1, <1>4, <1>6, <1>8 DEF After
<1> QED
  BY <1>0, <1>1, <1>4, <1>6, <1>7, <1>9

\* Behind its first unit, a run goes on with the next one.
LEMMA RestRun ==
  ASSUME NEW L \in Lengths, NEW u \in Nat, NEW v \in Nat, u < v, v <= 2 * Len(L) + 1,
         NEW q, Run(q, u, v, L)
  PROVE  Run(SubSeq(q, Size(L, u) + 1, Len(q)), u + 1, v, L)
<1> DEFINE s == Size(L, u)
           r == SubSeq(q, s + 1, Len(q))
<1>0. Len(q) \in Nat /\ q \in Seq(Byte) /\ q # <<>> /\ Len(L) \in Nat
  BY LenProperties, EmptySeq DEF Run, Lengths
<1>1. s \in Nat \ {0} /\ s <= Len(q) /\ \A i \in 1..s : q[i] = [unit |-> u, at |-> i]
  BY <1>0, SizeType, FirstUnit
<1>2. r \in Seq(Byte) /\ Len(r) = Len(q) - s /\ \A i \in 1..Len(r) : r[i] = q[s + i]
  <2>1. \A i \in s + 1 .. Len(q) : q[i] \in Byte
    BY <1>0, <1>1, ElementOfSeq
  <2>2. /\ r \in Seq(Byte)
        /\ Len(r) = IF s + 1 <= Len(q) THEN Len(q) - (s + 1) + 1 ELSE 0
        /\ \A i \in 1 .. Len(q) - (s + 1) + 1 : r[i] = q[(s + 1) + i - 1]
    BY <1>0, <1>1, <2>1, SubSeqProperties
  <2> QED
    BY <1>0, <1>1, <2>2
<1> HIDE DEF r
<1>3. \A i \in 1..Len(r) : r[i].unit < v
  BY <1>0, <1>1, <1>2 DEF Run
<1>4. r # <<>> => Len(r) # 0
  BY <1>2, EmptySeq
<1>5. r # <<>> => r[1] = [unit |-> u + 1, at |-> 1]
  <2>1. SUFFICES ASSUME r # <<>> PROVE r[1] = [unit |-> u + 1, at |-> 1]
    OBVIOUS
  <2>2. r[1] = q[s + 1] /\ s + 1 <= Len(q)
    BY <1>0, <1>1, <1>2, <1>4, <2>1
  <2>3. q[s + 1] = After(L, q[s]) /\ q[s] = [unit |-> u, at |-> s]
    BY <1>0, <1>1, <2>2 DEF Run
  <2> QED
    BY <1>1, <2>2, <2>3 DEF After
<1>6. \A i \in 1..(Len(r) - 1) : r[i + 1] = After(L, r[i])
  <2>1. TAKE i \in 1..(Len(r) - 1)
  <2>2. r[i + 1] = q[s + i + 1] /\ r[i] = q[s + i] /\ s + i \in 1..(Len(q) - 1)
    BY <1>0, <1>1, <1>2
  <2> QED
    BY <1>0, <2>2 DEF Run
<1>7. r # <<>> => r[Len(r)] = [unit |-> v - 1, at |-> Size(L, v - 1)]
  BY <1>0, <1>1, <1>2, <1>4 DEF Run
<1>8. r = <<>> => u + 1 = v
  <2>1. SUFFICES ASSUME r = <<>> PROVE u + 1 = v
    OBVIOUS
  <2>2. Len(q) = s
    BY <1>0, <1>1, <1>2, <2>1, EmptySeq
  <2>3. [unit |-> u, at |-> s] = [unit |-> v - 1, at |-> Size(L, v - 1)]
    BY <1>0, <1>1, <2>2 DEF Run
  <2>4. u = v - 1
    BY <2>3
  <2> QED
    BY <2>4
<1>9. Run(r, u + 1, v, L)
  BY <1>2, <1>3, <1>5, <1>6, <1>7, <1>8 DEF Run
<1> QED
  BY <1>9 DEF r

\* Two runs, one behind the other, are one.
LEMMA ConcatRun ==
  ASSUME NEW L, NEW u \in Nat, NEW v \in Nat, NEW w \in Nat,
         NEW p, Run(p, u, v, L), NEW q, Run(q, v, w, L)
  PROVE  Run(p \o q, u, w, L)
<1>0. p \in Seq(Byte) /\ q \in Seq(Byte) /\ Len(p) \in Nat /\ Len(q) \in Nat
  BY LenProperties DEF Run
<1>1. /\ p \o q \in Seq(Byte) /\ Len(p \o q) = Len(p) + Len(q)
      /\ \A i \in 1..Len(p) + Len(q) : (p \o q)[i] = IF i <= Len(p) THEN p[i] ELSE q[i - Len(p)]
  BY <1>0, ConcatProperties
<1>2. CASE p = <<>>
  <2>1. p \o q = q /\ u = v
    BY <1>0, <1>2, ConcatEmptySeq DEF Run
  <2> QED
    BY <2>1
<1>3. CASE q = <<>>
  <2>1. p \o q = p /\ v = w
    BY <1>0, <1>3, ConcatEmptySeq DEF Run
  <2> QED
    BY <2>1
<1>4. CASE p # <<>> /\ q # <<>>
  <2>1. Len(p) \in Nat \ {0} /\ Len(q) \in Nat \ {0}
    BY <1>0, <1>4, EmptySeq
  <2>2. q[1] = [unit |-> v, at |-> 1] /\ v < w
    <3>1. q[1] = [unit |-> v, at |-> 1]
      BY <1>4 DEF Run
    <3>2. q[1].unit < w
      BY <2>1 DEF Run
    <3> QED
      BY <3>1, <3>2
  <2>3. p[Len(p)] = [unit |-> v - 1, at |-> Size(L, v - 1)]
    BY <1>4 DEF Run
  <2>4. \A i \in 1..Len(p \o q) : (p \o q)[i].unit < w
    <3>1. TAKE i \in 1..Len(p \o q)
    <3>2. CASE i <= Len(p)
      <4>1. p[i].unit < v /\ p[i] \in Byte
        BY <1>0, <1>1, <2>1, <3>2, ElementOfSeq DEF Run
      <4>2. p[i].unit \in Nat
        BY <4>1 DEF Byte
      <4> QED
        BY <1>1, <2>2, <3>2, <4>1, <4>2
    <3>3. CASE ~(i <= Len(p))
      BY <1>0, <1>1, <3>3 DEF Run
    <3> QED
      BY <3>2, <3>3
  <2>5. p \o q # <<>> /\ (p \o q)[1] = [unit |-> u, at |-> 1]
    BY <1>0, <1>1, <1>4, <2>1, EmptySeq DEF Run
  <2>6. \A i \in 1..(Len(p \o q) - 1) : (p \o q)[i + 1] = After(L, (p \o q)[i])
    <3>1. TAKE i \in 1..(Len(p \o q) - 1)
    <3>2. CASE i < Len(p)
      <4>1. (p \o q)[i + 1] = p[i + 1] /\ (p \o q)[i] = p[i] /\ i \in 1..(Len(p) - 1)
        BY <1>0, <1>1, <3>2
      <4> QED
        BY <4>1 DEF Run
    <3>3. CASE i = Len(p)
      <4>1. (p \o q)[i + 1] = q[1] /\ (p \o q)[i] = p[Len(p)]
        BY <1>0, <1>1, <2>1, <3>3
      <4>2. After(L, p[Len(p)]) = [unit |-> (v - 1) + 1, at |-> 1]
        <5>1. p[Len(p)] \in Byte
          BY <1>0, <2>1, ElementOfSeq
        <5>2. p[Len(p)].at \in Nat
          BY <5>1 DEF Byte
        <5>3. p[Len(p)].unit = v - 1 /\ p[Len(p)].at = Size(L, v - 1)
          BY <2>3
        <5>4. ~(p[Len(p)].at < Size(L, p[Len(p)].unit))
          BY <5>2, <5>3
        <5> QED
          BY <5>3, <5>4 DEF After
      <4>3. (v - 1) + 1 = v
        OBVIOUS
      <4> QED
        BY <2>2, <4>1, <4>2, <4>3
    <3>4. CASE i > Len(p)
      <4>1. (p \o q)[i + 1] = q[(i - Len(p)) + 1] /\ (p \o q)[i] = q[i - Len(p)]
            /\ i - Len(p) \in 1..(Len(q) - 1)
        BY <1>0, <1>1, <3>4
      <4> QED
        BY <4>1 DEF Run
    <3> QED
      BY <1>0, <3>2, <3>3, <3>4
  <2>7. (p \o q)[Len(p \o q)] = [unit |-> w - 1, at |-> Size(L, w - 1)]
    BY <1>0, <1>1, <1>4, <2>1 DEF Run
  <2> QED
    BY <1>1, <2>4, <2>5, <2>6, <2>7 DEF Run
<1> QED
  BY <1>2, <1>3, <1>4

\* The bytes of one unit are a run.
LEMMA UnitRun ==
  ASSUME NEW L, NEW u \in Nat, NEW q, Size(L, u) \in Nat \ {0},
         q = [i \in 1..Size(L, u) |-> [unit |-> u, at |-> i]]
  PROVE  Run(q, u, u + 1, L)
<1> DEFINE s == Size(L, u)
<1>1. q \in Seq(Byte) /\ Len(q) = s
  <2>1. \A i \in 1..s : [unit |-> u, at |-> i] \in Byte
    BY DEF Byte
  <2> QED
    BY <2>1
<1>2. q # <<>> /\ \A i \in 1..s : q[i] = [unit |-> u, at |-> i]
  <2>1. Len(q) # 0
    BY <1>1
  <2> QED
    BY <2>1
<1>3. \A i \in 1..(s - 1) : After(L, q[i]) = [unit |-> u, at |-> i + 1]
  BY <1>2 DEF After
<1>4. (u + 1) - 1 = u /\ s \in 1..s
  OBVIOUS
<1>5. \A i \in 1..Len(q) : q[i].unit < u + 1
  BY <1>1, <1>2
<1>6. q[1] = [unit |-> u, at |-> 1]
  BY <1>2
<1>7. \A i \in 1..(Len(q) - 1) : q[i + 1] = After(L, q[i])
  <2>1. TAKE i \in 1..(Len(q) - 1)
  <2>2. i \in 1..(s - 1) /\ i + 1 \in 1..s
    BY <1>1
  <2> HIDE DEF s
  <2>3. q[i + 1] = [unit |-> u, at |-> i + 1]
    BY <1>2, <2>2
  <2> QED
    BY <1>3, <2>2, <2>3
<1>8. q[Len(q)] = [unit |-> (u + 1) - 1, at |-> Size(L, (u + 1) - 1)]
  BY <1>1, <1>2, <1>4
<1> HIDE DEF s
<1> QED
  BY <1>1, <1>2, <1>5, <1>6, <1>7, <1>8 DEF Run

\* What is written later changes nothing about the units there are.
LEMMA RunStands ==
  ASSUME NEW L \in Lengths, NEW P \in Lengths, NEW u \in Nat, NEW v \in Nat,
         v <= 2 * Len(L) + 1, NEW q, Run(q, u, v, L)
  PROVE  Run(q, u, v, L \o P)
<1>0. q \in Seq(Byte) /\ Len(q) \in Nat /\ Len(L) \in Nat
  BY LenProperties DEF Run, Lengths
<1>1. \A x \in Nat : x < v => Size(L \o P, x) = Size(L, x)
  <2>1. SUFFICES ASSUME NEW x \in Nat, x < v PROVE Size(L \o P, x) = Size(L, x)
    OBVIOUS
  <2>2. CASE x # 0 /\ x % 2 # 1
    <3>1. x \div 2 \in 1..Len(L)
      BY <1>0, <2>1, <2>2
    <3>2. (L \o P)[x \div 2] = L[x \div 2]
      <4>1. L \in Seq(Nat \ {0}) /\ P \in Seq(Nat \ {0}) /\ Len(P) \in Nat
        BY LenProperties DEF Lengths
      <4> QED
        BY <1>0, <3>1, <4>1, ConcatProperties
    <3> QED
      BY <3>2 DEF Size
  <2> QED
    BY <2>2 DEF Size
<1>2. \A i \in 1..Len(q) : q[i].unit \in Nat /\ q[i].unit < v
  <2>1. \A i \in 1..Len(q) : q[i] \in Byte
    BY <1>0, ElementOfSeq
  <2> QED
    BY <2>1 DEF Run, Byte
<1>3. \A i \in 1..(Len(q) - 1) : q[i + 1] = After(L \o P, q[i])
  BY <1>0, <1>1, <1>2 DEF Run, After
<1>4. q # <<>> => q[Len(q)] = [unit |-> v - 1, at |-> Size(L \o P, v - 1)]
  <2>1. SUFFICES ASSUME q # <<>> PROVE q[Len(q)] = [unit |-> v - 1, at |-> Size(L \o P, v - 1)]
    OBVIOUS
  <2>2. q[Len(q)] = [unit |-> v - 1, at |-> Size(L, v - 1)] /\ Len(q) \in 1..Len(q)
    BY <1>0, <2>1, EmptySeq DEF Run
  <2>3. v - 1 \in Nat
    BY <1>2, <2>2
  <2> QED
    BY <1>1, <2>2, <2>3
<1> QED
  BY <1>3, <1>4 DEF Run

-----------------------------------------------------------------------------
(* FlattenSeq, unfolded.                                                    *)

FlattenFrom(f, seqs, i) == IF i = 1 THEN seqs[i] ELSE f[i - 1] \o seqs[i]

IsFlatten(f, seqs, n) ==
  /\ f = [i \in 1..n |-> f[i]]
  /\ \A i \in 1..n : f[i] = FlattenFrom(f, seqs, i)

\* The recursive function that defines FlattenSeq exists.
LEMMA FlattenExists ==
  ASSUME NEW seqs, NEW N \in Nat
  PROVE  \E f : IsFlatten(f, seqs, N)
<1> USE DEF IsFlatten
<1> DEFINE Is(f, n) == IsFlatten(f, seqs, n)
           T == {n \in Nat : ~ \E f : Is(f, n)}
<1>1. SUFFICES ASSUME ~ \E f : Is(f, N) PROVE FALSE
  OBVIOUS
<1>2. PICK n \in T : \A k \in T : n <= k
  <2>1. T \subseteq Nat /\ T # {}
    BY <1>1
  <2> HIDE DEF T
  <2> QED
    BY <2>1, LeastNumber
<1>3. n # 0
  <2>1. SUFFICES ASSUME n = 0 PROVE FALSE
    OBVIOUS
  <2> DEFINE g == [i \in 1..0 |-> seqs]
  <2>2. Is(g, 0)
    OBVIOUS
  <2> QED
    BY <1>2, <2>1, <2>2
<1>4. n - 1 \in Nat /\ n - 1 \notin T
  BY <1>2, <1>3
<1>5. PICK f : Is(f, n - 1)
  BY <1>4
<1> DEFINE last == FlattenFrom(f, seqs, n)
           g == [i \in 1..n |-> IF i = n THEN last ELSE f[i]]
<1> HIDE DEF last
<1>6. \A i \in 1..n : g[i] = FlattenFrom(g, seqs, i)
  <2>1. TAKE i \in 1..n
  <2>2. CASE i = n
    <3>1. g[i] = last
      BY <2>2
    <3>2. i # 1 => g[i - 1] = f[i - 1]
      BY <2>2
    <3> QED
      BY <2>2, <3>1, <3>2 DEF last, FlattenFrom
  <2>3. CASE i # n
    <3>1. g[i] = f[i] /\ i \in 1..(n - 1)
      BY <1>4, <2>3
    <3>2. i # 1 => g[i - 1] = f[i - 1]
      BY <2>3
    <3>3. f[i] = FlattenFrom(f, seqs, i)
      BY <1>5, <3>1
    <3> QED
      BY <3>1, <3>2, <3>3 DEF FlattenFrom
  <2> QED
    BY <2>2, <2>3
<1>7. g = [i \in 1..n |-> g[i]]
  OBVIOUS
<1> HIDE DEF g
<1>8. Is(g, n)
  BY <1>6, <1>7
<1> QED
  BY <1>2, <1>8

\* FlattenSeq is the last value of that function.
LEMMA FlattenIs ==
  ASSUME NEW seqs, Len(seqs) \in Nat \ {0}
  PROVE  \E f : IsFlatten(f, seqs, Len(seqs)) /\ FlattenSeq(seqs) = f[Len(seqs)]
<1> DEFINE n == Len(seqs)
           Def(f) == f = [i \in 1..n |-> FlattenFrom(f, seqs, i)]
<1>1. \E f : Def(f)
  <2>1. PICK f : IsFlatten(f, seqs, n)
    BY FlattenExists
  <2>2. f = [i \in 1..n |-> FlattenFrom(f, seqs, i)]
    BY <2>1 DEF IsFlatten
  <2> QED
    BY <2>2
<1> DEFINE c == CHOOSE f : Def(f)
<1>2. Def(c)
  BY <1>1
<1>3. FlattenSeq(seqs) = c[n]
  BY DEF FlattenSeq, FlattenFrom
<1> HIDE DEF c
<1>4. IsFlatten(c, seqs, n)
  BY <1>2 DEF IsFlatten
<1> QED
  BY <1>3, <1>4

\* Units in pairs, one pair after the other.
LEMMA FlattenRun ==
  ASSUME NEW L, NEW u \in Nat, NEW seqs, Len(seqs) \in Nat,
         \A k \in 1..Len(seqs) : Run(seqs[k], u + 2 * (k - 1), u + 2 * k, L),
         Len(seqs) = 0 => seqs = <<>>
  PROVE  Run(FlattenSeq(seqs), u, u + 2 * Len(seqs), L)
<1> DEFINE n == Len(seqs)
<1>1. CASE n = 0
  <2>1. FlattenSeq(seqs) = <<>>
    BY <1>1 DEF FlattenSeq
  <2>2. u + 2 * Len(seqs) = u
    BY <1>1
  <2>3. Run(<<>>, u, u, L)
    BY DEF Run
  <2> QED
    BY <2>1, <2>2, <2>3
<1>2. CASE n # 0
  <2>1. PICK f : IsFlatten(f, seqs, n) /\ FlattenSeq(seqs) = f[n]
    BY <1>2, FlattenIs
  <2> DEFINE Wrong(k) == ~Run(f[k], u, u + 2 * k, L)
             T == {k \in 1..n : Wrong(k)}
  <2>2. SUFFICES ASSUME T # {} PROVE FALSE
    <3>1. ~Wrong(n)
      BY <1>2, <2>2
    <3> QED
      BY <2>1, <3>1
  <2>3. PICK m \in T : \A k \in T : m <= k
    <3>1. T \subseteq Nat
      OBVIOUS
    <3> HIDE DEF T
    <3> QED
      BY <2>2, <3>1, LeastNumber
  <2>4. m \in 1..n /\ Wrong(m)
    OBVIOUS
  <2>5. m # 1
    <3>1. SUFFICES ASSUME m = 1 PROVE FALSE
      OBVIOUS
    <3>2. f[1] = seqs[1] /\ Run(seqs[1], u + 2 * (1 - 1), u + 2 * 1, L)
      BY <2>1, <2>4, <3>1 DEF IsFlatten, FlattenFrom
    <3>3. u + 2 * (1 - 1) = u
      OBVIOUS
    <3> QED
      BY <2>4, <3>1, <3>2, <3>3
  <2>6. m - 1 \in 1..n /\ ~Wrong(m - 1)
    <3>1. m - 1 \in 1..n /\ m - 1 \notin T
      BY <2>3, <2>4, <2>5
    <3> QED
      BY <3>1
  <2>7. f[m] = f[m - 1] \o seqs[m]
    BY <2>1, <2>4, <2>5 DEF IsFlatten, FlattenFrom
  <2>8. Run(seqs[m], u + 2 * (m - 1), u + 2 * m, L)
    BY <2>4
  <2>9. u + 2 * (m - 1) \in Nat /\ u + 2 * m \in Nat
    BY <2>4
  <2>10. Run(f[m - 1] \o seqs[m], u, u + 2 * m, L)
    BY <2>6, <2>8, <2>9, ConcatRun
  <2> QED
    BY <2>4, <2>7, <2>10
<1> QED
  BY <1>1, <1>2
-----------------------------------------------------------------------------
(* The receiver.                                                            *)

\* A run of no units has no bytes.
LEMMA NoRun ==
  ASSUME NEW L, NEW u \in Nat, NEW q, Run(q, u, u, L)
  PROVE  q = <<>>
<1> SUFFICES ASSUME q # <<>> PROVE FALSE
  OBVIOUS
<1>1. q \in Seq(Byte) /\ Len(q) \in Nat \ {0}
  BY LenProperties, EmptySeq DEF Run
<1>2. q[1].unit < u /\ q[1] = [unit |-> u, at |-> 1]
  BY <1>1 DEF Run
<1> QED
  BY <1>2

UnitBytes(u, size) == [i \in 1..size |-> [unit |-> u, at |-> i]]

\* The unit a run begins with is cut off its front once it has all arrived,
\* and what is left, with what is to come, is the run behind it.
LEMMA UnitTaken ==
  ASSUME NEW L \in Lengths, NEW u \in Nat, NEW v \in Nat, u < v, v <= 2 * Len(L) + 1,
         NEW b \in Seq(Byte), NEW w \in Seq(Byte), Run(b \o w, u, v, L), Size(L, u) <= Len(b)
  PROVE  /\ SubSeq(b, 1, Size(L, u)) = UnitBytes(u, Size(L, u))
         /\ SubSeq(b, Size(L, u) + 1, Len(b)) \in Seq(Byte)
         /\ Len(SubSeq(b, Size(L, u) + 1, Len(b))) = Len(b) - Size(L, u)
         /\ Run(SubSeq(b, Size(L, u) + 1, Len(b)) \o w, u + 1, v, L)
<1> DEFINE q == b \o w
           s == Size(L, u)
           r == SubSeq(b, s + 1, Len(b))
           rest == SubSeq(q, s + 1, Len(q))
           first == SubSeq(b, 1, s)
<1>0. Len(b) \in Nat /\ Len(w) \in Nat /\ Len(L) \in Nat
  BY LenProperties DEF Lengths
<1>1. /\ q \in Seq(Byte) /\ Len(q) = Len(b) + Len(w)
      /\ \A i \in 1..Len(b) + Len(w) : q[i] = IF i <= Len(b) THEN b[i] ELSE w[i - Len(b)]
  BY ConcatProperties
<1>2. s \in Nat \ {0} /\ s <= Len(q) /\ \A i \in 1..s : q[i] = [unit |-> u, at |-> i]
  <2>1. s \in Nat \ {0}
    <3>1. u <= 2 * Len(L)
      BY <1>0
    <3> QED
      BY <3>1, SizeType
  <2>2. Run(q, u, v, L)
    OBVIOUS
  <2> HIDE DEF q
  <2> QED
    BY <2>1, <2>2, FirstUnit
<1>3. Run(rest, u + 1, v, L)
  BY RestRun
<1>4. \A i \in 1..s : b[i] = [unit |-> u, at |-> i]
  BY <1>0, <1>1, <1>2
<1>5. first = [i \in 1..s |-> [unit |-> u, at |-> i]]
  <2>1. \A i \in 1..s : b[i] \in Byte
    BY <1>0, <1>2, ElementOfSeq
  <2>2. first \in Seq(Byte) /\ Len(first) = s /\ \A i \in 1..s : first[i] = b[i]
    <3>1. /\ first \in Seq(Byte)
          /\ Len(first) = IF 1 <= s THEN s - 1 + 1 ELSE 0
          /\ \A i \in 1 .. s - 1 + 1 : first[i] = b[1 + i - 1]
      BY <1>0, <1>2, <2>1, SubSeqProperties
    <3> QED
      BY <1>2, <3>1
  <2> DEFINE t == [i \in 1..s |-> [unit |-> u, at |-> i]]
  <2>3. t \in Seq(Byte) /\ Len(t) = s
    <3>1. \A i \in 1..s : [unit |-> u, at |-> i] \in Byte
      BY DEF Byte
    <3> HIDE DEF s
    <3> QED
      BY <1>2, <3>1
  <2>4. \A i \in 1..s : first[i] = t[i]
    <3> HIDE DEF first, s
    <3> QED
      BY <1>4, <2>2
  <2> HIDE DEF first, t, s
  <2>5. first = t
    BY <2>2, <2>3, <2>4, SeqEqual
  <2> QED
    BY <2>5 DEF t
<1>6. r \in Seq(Byte) /\ Len(r) = Len(b) - s /\ \A i \in 1..Len(r) : r[i] = b[s + i]
  <2>1. \A i \in s + 1 .. Len(b) : b[i] \in Byte
    BY <1>0, <1>2, ElementOfSeq
  <2>2. /\ r \in Seq(Byte)
        /\ Len(r) = IF s + 1 <= Len(b) THEN Len(b) - (s + 1) + 1 ELSE 0
        /\ \A i \in 1 .. Len(b) - (s + 1) + 1 : r[i] = b[(s + 1) + i - 1]
    BY <1>0, <1>2, <2>1, SubSeqProperties
  <2> QED
    BY <1>0, <1>2, <2>2
<1>7. rest \in Seq(Byte) /\ Len(rest) = Len(q) - s /\ \A i \in 1..Len(rest) : rest[i] = q[s + i]
  <2>0. Len(q) \in Nat
    BY <1>0, <1>1
  <2>1. \A i \in s + 1 .. Len(q) : q[i] \in Byte
    BY <1>1, <1>2, <2>0, ElementOfSeq
  <2> HIDE DEF q
  <2>2. /\ rest \in Seq(Byte)
        /\ Len(rest) = IF s + 1 <= Len(q) THEN Len(q) - (s + 1) + 1 ELSE 0
        /\ \A i \in 1 .. Len(q) - (s + 1) + 1 : rest[i] = q[(s + 1) + i - 1]
    BY <1>1, <1>2, <2>0, <2>1, SubSeqProperties
  <2> QED
    BY <1>2, <2>0, <2>2
<1>8. /\ r \o w \in Seq(Byte) /\ Len(r \o w) = Len(r) + Len(w)
      /\ \A i \in 1..Len(r) + Len(w) : (r \o w)[i] = IF i <= Len(r) THEN r[i] ELSE w[i - Len(r)]
  BY <1>6, ConcatProperties
<1> HIDE DEF r, q, rest, first, s
<1>9. r \o w = rest
  <2>1. Len(r \o w) = Len(rest)
    BY <1>0, <1>1, <1>2, <1>6, <1>7, <1>8
  <2>2. \A i \in 1..Len(rest) : (r \o w)[i] = rest[i]
    <3>1. TAKE i \in 1..Len(rest)
    <3>2. i \in 1..Len(r) + Len(w) /\ s + i \in 1..Len(b) + Len(w)
      BY <1>0, <1>1, <1>2, <1>6, <1>7
    <3>3. (r \o w)[i] = IF i <= Len(r) THEN r[i] ELSE w[i - Len(r)]
      BY <1>8, <3>2
    <3>4. PICK j \in 1..Len(b) + Len(w) : j = s + i
      BY <3>2
    <3>5. rest[i] = q[j]
      BY <1>7, <3>4
    <3>6. q[j] = IF j <= Len(b) THEN b[j] ELSE w[j - Len(b)]
      BY <1>1
    <3>7. j - Len(b) = i - Len(r) /\ ((i <= Len(r)) <=> (j <= Len(b)))
      BY <1>0, <1>2, <1>6, <3>4
    <3>8. CASE i <= Len(r)
      <4>1. (r \o w)[i] = b[s + i]
        BY <1>6, <3>3, <3>8
      <4>2. rest[i] = b[j]
        BY <3>5, <3>6, <3>7, <3>8
      <4> QED
        BY <3>4, <4>1, <4>2
    <3>9. CASE ~(i <= Len(r))
      BY <3>3, <3>5, <3>6, <3>7, <3>9
    <3> QED
      BY <3>8, <3>9
  <2> QED
    BY <1>7, <1>8, <2>1, <2>2, SeqEqual
<1>10. Run(r \o w, u + 1, v, L)
  BY <1>3, <1>9
<1> QED
  BY <1>5, <1>6, <1>10 DEF r, first, s, UnitBytes

UnitOf(c) == IF c.keyed THEN c.nonce + 1 ELSE 0

ReceiverType ==
  [buffer : Seq(Byte), keyed : BOOLEAN, nonce : Nat, pending : Nat \cup {NoLength},
   got : Nat, state : {"running", "starved"}]

\* S[k] bytes of plaintext come before the k-th payload, and t in all.
Sums(S, L, t) ==
  /\ S \in [1..(Len(L) + 1) -> Nat]
  /\ S[1] = 0
  /\ S[Len(L) + 1] = t
  /\ \A k \in 1..Len(L) : S[k + 1] = S[k] + L[k]
  /\ \A k \in 1..(Len(L) + 1) : S[k] <= t

Hungry(c, L) == UnitOf(c) <= 2 * Len(L) => Len(c.buffer) < Size(L, UnitOf(c))

\* The receiver c, with w on the wire, is where the units L describes put it.
InStep(c, w, L, S) ==
  /\ c \in ReceiverType
  /\ c.nonce <= 2 * Len(L)
  /\ ~c.keyed => c.nonce = 0 /\ c.pending = NoLength
  /\ c.pending = NoLength => c.nonce % 2 = 0
  /\ c.pending # NoLength => c.nonce % 2 = 1 /\ c.pending = L[(c.nonce \div 2) + 1]
  /\ c.got = S[(c.nonce \div 2) + 1]
  /\ Run(c.buffer \o w, UnitOf(c), 2 * Len(L) + 1, L)
  /\ c.state = "starved" => Hungry(c, L)

\* A receiver that is in step has the type of a receiver.
LEMMA InStepType ==
  ASSUME NEW c, NEW w, NEW L \in Lengths, NEW S, InStep(c, w, L, S)
  PROVE  /\ Len(L) \in Nat
         /\ c.nonce \in Nat /\ c.keyed \in BOOLEAN /\ UnitOf(c) \in Nat
         /\ c.buffer \in Seq(Byte) /\ Len(c.buffer) \in Nat
         /\ c.pending \in Nat \cup {NoLength} /\ c.got \in Nat
<1>1. Len(L) \in Nat /\ c \in ReceiverType
  BY LenProperties DEF Lengths, InStep
<1>2. c.nonce \in Nat /\ c.buffer \in Seq(Byte) /\ c.pending \in Nat \cup {NoLength} /\ c.got \in Nat
  BY <1>1 DEF ReceiverType
<1>3. c.keyed \in BOOLEAN
  BY <1>1, Zenon DEF ReceiverType
<1>4. UnitOf(c) \in Nat
  BY <1>2 DEF UnitOf
<1> QED
  BY <1>1, <1>2, <1>3, <1>4, LenProperties

\* The first s bytes of the buffer are unit u, and the run goes on behind them.
Taken(c, w, L, u, s) ==
  /\ SubSeq(c.buffer, 1, s) = UnitBytes(u, s)
  /\ Rest(c, s) \in Seq(Byte)
  /\ Len(Rest(c, s)) = Len(c.buffer) - s
  /\ Run(Rest(c, s) \o w, u + 1, 2 * Len(L) + 1, L)

\* What a receiver takes next is the unit it is at.
LEMMA Takes ==
  ASSUME NEW L \in Lengths, NEW S, NEW w \in Seq(Byte), NEW c, InStep(c, w, L, S),
         NEW u \in Nat, UnitOf(c) = u, u <= 2 * Len(L),
         NEW s, Size(L, u) = s, s <= Len(c.buffer)
  PROVE  Taken(c, w, L, u, s)
<1>1. Len(L) \in Nat /\ c.buffer \in Seq(Byte)
  BY InStepType
<1>2. Run(c.buffer \o w, u, 2 * Len(L) + 1, L)
  BY DEF InStep
<1>3. u < 2 * Len(L) + 1 /\ 2 * Len(L) + 1 \in Nat /\ 2 * Len(L) + 1 <= 2 * Len(L) + 1
  BY <1>1
<1>4. Size(L, u) \in Nat \ {0}
  BY SizeType
<1>5. s \in Nat \ {0} /\ s <= Len(c.buffer)
  BY <1>4
<1>6. /\ SubSeq(c.buffer, 1, Size(L, u)) = UnitBytes(u, Size(L, u))
      /\ SubSeq(c.buffer, Size(L, u) + 1, Len(c.buffer)) \in Seq(Byte)
      /\ Len(SubSeq(c.buffer, Size(L, u) + 1, Len(c.buffer))) = Len(c.buffer) - Size(L, u)
      /\ Run(SubSeq(c.buffer, Size(L, u) + 1, Len(c.buffer)) \o w, u + 1, 2 * Len(L) + 1, L)
  <2>1. Size(L, u) <= Len(c.buffer)
    OBVIOUS
  <2> QED
    BY <1>1, <1>2, <1>3, <2>1, UnitTaken
<1> QED
  BY <1>6, Zenon DEF Rest, Taken

\* Without a unit to come there are no bytes.
LEMMA NothingLeft ==
  ASSUME NEW L \in Lengths, NEW S, NEW w \in Seq(Byte), NEW c, InStep(c, w, L, S),
         ~(UnitOf(c) <= 2 * Len(L))
  PROVE  c.keyed /\ c.nonce = 2 * Len(L) /\ c.buffer = <<>> /\ w = <<>>
<1>1. Len(L) \in Nat /\ UnitOf(c) \in Nat /\ c.buffer \in Seq(Byte) /\ c.nonce \in Nat
  BY InStepType
<1>2. c.keyed /\ c.nonce = 2 * Len(L) /\ UnitOf(c) = 2 * Len(L) + 1
  BY <1>1 DEF UnitOf, InStep
<1>3. c.buffer \o w = <<>>
  BY <1>1, <1>2, NoRun DEF InStep
<1>4. c.buffer = <<>> /\ w = <<>>
  BY <1>1, <1>3, ConcatSimplifications
<1> QED
  BY <1>2, <1>4

\* The salt: the receiver is keyed, and stays in step.
LEMMA SaltKeeps ==
  ASSUME NEW L \in Lengths, NEW S, NEW w \in Seq(Byte), NEW c, InStep(c, w, L, S),
         c.state = "running", ~c.keyed
  PROVE  /\ InStep(TakeSalt(c), w, L, S)
         /\ TakeSalt(c).state = "running" => Len(TakeSalt(c).buffer) < Len(c.buffer)
<1>1. /\ Len(L) \in Nat /\ c.buffer \in Seq(Byte) /\ Len(c.buffer) \in Nat
      /\ c \in ReceiverType /\ UnitOf(c) = 0 /\ Size(L, 0) = SaltLength
  BY InStepType DEF InStep, UnitOf, Size
<1>2. CASE Len(c.buffer) < SaltLength
  <2> DEFINE d == [c EXCEPT !.state = "starved"]
  <2>1. TakeSalt(c) = d
    BY <1>2 DEF TakeSalt
  <2>2. /\ d \in ReceiverType /\ d.state = "starved" /\ d.buffer = c.buffer /\ d.nonce = c.nonce
        /\ d.pending = c.pending /\ d.got = c.got
    BY <1>1 DEF ReceiverType
  <2>3. d.keyed = c.keyed
    BY <1>1, Zenon DEF ReceiverType
  <2> HIDE DEF d
  <2>4. UnitOf(d) = 0 /\ Hungry(d, L)
    BY <1>1, <1>2, <2>2, <2>3 DEF UnitOf, Hungry
  <2>5. InStep(d, w, L, S)
    BY <1>1, <2>2, <2>3, <2>4 DEF InStep
  <2> QED
    BY <2>1, <2>2, <2>5
<1>3. CASE ~(Len(c.buffer) < SaltLength)
  <2> DEFINE r == Rest(c, SaltLength)
             d == [c EXCEPT !.buffer = r, !.keyed = TRUE]
  <2>1. TakeSalt(c) = d
    BY <1>3 DEF TakeSalt
  <2>2. r \in Seq(Byte) /\ Len(r) = Len(c.buffer) - SaltLength /\ Run(r \o w, 0 + 1, 2 * Len(L) + 1, L)
    <3>1. SaltLength <= Len(c.buffer) /\ 0 <= 2 * Len(L)
      BY <1>1, <1>3, StreamAssumption
    <3> DEFINE u == 0
    <3>2. u \in Nat /\ UnitOf(c) = u /\ u <= 2 * Len(L) /\ Size(L, u) = SaltLength
      BY <1>1, <3>1
    <3> HIDE DEF u, r, d
    <3>3. Taken(c, w, L, u, SaltLength)
      BY <3>1, <3>2, Takes
    <3> QED
      BY <3>3 DEF u, r, Taken
  <2> HIDE DEF r
  <2>3. /\ d.state = "running" /\ d.buffer = r /\ d.nonce = 0 /\ d.pending = NoLength /\ d.got = c.got
    BY <1>1 DEF ReceiverType, InStep
  <2>4. d.keyed /\ d \in ReceiverType
    BY <1>1, <2>2, Zenon DEF ReceiverType
  <2> HIDE DEF d
  <2>5. UnitOf(d) = 0 + 1
    BY <2>3, <2>4 DEF UnitOf
  <2>6. c.nonce = 0
    BY DEF InStep
  <2>7. InStep(d, w, L, S)
    BY <1>1, <2>2, <2>3, <2>4, <2>5, <2>6 DEF InStep
  <2> QED
    BY <1>1, <2>1, <2>2, <2>3, <2>7, StreamAssumption
<1> QED
  BY <1>2, <1>3

\* A header: the receiver learns the length the sender put into it.
LEMMA LengthKeeps ==
  ASSUME lengths \in Lengths, NEW S, NEW w \in Seq(Byte), NEW c, InStep(c, w, lengths, S),
         c.state = "running", c.keyed, c.pending = NoLength
  PROVE  /\ InStep(TakeLength(c), w, lengths, S)
         /\ TakeLength(c).state = "running" => Len(TakeLength(c).buffer) < Len(c.buffer)
<1> DEFINE L == lengths
<1>1. /\ Len(L) \in Nat /\ c.buffer \in Seq(Byte) /\ Len(c.buffer) \in Nat /\ c.nonce \in Nat
      /\ c \in ReceiverType /\ UnitOf(c) = c.nonce + 1 /\ c.nonce % 2 = 0
      /\ c.nonce <= 2 * Len(L)
  BY InStepType DEF InStep, UnitOf
<1>2. Size(L, c.nonce + 1) = HeaderSize /\ HeaderSize \in Nat \ {0}
  <2>1. c.nonce + 1 # 0 /\ (c.nonce + 1) % 2 = 1
    BY <1>1
  <2> QED
    BY <2>1, StreamAssumption DEF Size, HeaderSize
<1>3. CASE Len(c.buffer) < HeaderSize
  <2> DEFINE d == [c EXCEPT !.state = "starved"]
  <2>1. TakeLength(c) = d
    BY <1>3 DEF TakeLength
  <2>2. /\ d \in ReceiverType /\ d.state = "starved" /\ d.buffer = c.buffer /\ d.nonce = c.nonce
        /\ d.pending = c.pending /\ d.got = c.got
    BY <1>1 DEF ReceiverType
  <2>3. d.keyed = c.keyed
    BY <1>1, Zenon DEF ReceiverType
  <2> HIDE DEF d
  <2>4. UnitOf(d) = UnitOf(c) /\ Hungry(d, L)
    BY <1>1, <1>2, <1>3, <2>2, <2>3 DEF UnitOf, Hungry
  <2>5. InStep(d, w, L, S)
    BY <1>1, <2>2, <2>3, <2>4 DEF InStep
  <2> QED
    BY <2>1, <2>2, <2>5
<1>4. CASE ~(Len(c.buffer) < HeaderSize)
  <2>1. UnitOf(c) <= 2 * Len(L)
    <3>1. SUFFICES ASSUME ~(UnitOf(c) <= 2 * Len(L)) PROVE FALSE
      OBVIOUS
    <3>2. c.buffer = <<>>
      BY <3>1, NothingLeft
    <3>3. Len(c.buffer) = 0
      BY <3>2
    <3> QED
      BY <1>2, <1>4, <3>3
  <2> DEFINE r == Rest(c, HeaderSize)
             n == (c.nonce \div 2) + 1
             d == [c EXCEPT !.buffer = r, !.nonce = @ + 1, !.pending = L[n]]
  <2>2. /\ SubSeq(c.buffer, 1, HeaderSize) = UnitBytes(c.nonce + 1, HeaderSize)
        /\ r \in Seq(Byte) /\ Len(r) = Len(c.buffer) - HeaderSize
        /\ Run(r \o w, (c.nonce + 1) + 1, 2 * Len(L) + 1, L)
    <3> DEFINE u == c.nonce + 1
    <3>1. u \in Nat /\ UnitOf(c) = u /\ u <= 2 * Len(L) /\ Size(L, u) = HeaderSize
      BY <1>1, <1>2, <2>1
    <3>2. HeaderSize <= Len(c.buffer)
      BY <1>1, <1>2, <1>4
    <3> HIDE DEF u, r, d
    <3>3. Taken(c, w, L, u, HeaderSize)
      BY <3>1, <3>2, Takes
    <3> QED
      BY <3>3 DEF u, r, Taken
  <2>3. Decrypts(c, HeaderSize)
    BY <2>2 DEF Decrypts, Unit, UnitBytes
  <2>4. TakeLength(c) = d
    BY <1>4, <2>3 DEF TakeLength
  <2>5. n \in 1..Len(L) /\ (c.nonce + 1) \div 2 = c.nonce \div 2 /\ (c.nonce + 1) % 2 = 1
        /\ c.nonce + 1 <= 2 * Len(L)
    BY <1>1, <2>1
  <2>6. L[n] \in Nat \ {0}
    BY <2>5, ElementOfSeq DEF Lengths
  <2> HIDE DEF r, n
  <2>7. /\ d.state = "running" /\ d.buffer = r /\ d.nonce = c.nonce + 1 /\ d.pending = L[n] /\ d.got = c.got
        /\ d \in ReceiverType
    <3>1. c.nonce + 1 \in Nat /\ L[n] \in Nat \cup {NoLength}
      BY <1>1, <2>6
    <3>2. /\ d.state = "running" /\ d.buffer = r /\ d.nonce = c.nonce + 1 /\ d.pending = L[n]
          /\ d.got = c.got
      BY <1>1 DEF ReceiverType
    <3>3. d \in ReceiverType
      BY <1>1, <2>2, <3>1, Zenon DEF ReceiverType
    <3> QED
      BY <3>2, <3>3
  <2>8. d.keyed
    BY <1>1, Zenon DEF ReceiverType
  <2> HIDE DEF d
  <2>9. UnitOf(d) = (c.nonce + 1) + 1
    BY <2>7, <2>8 DEF UnitOf
  <2>10. d.pending # NoLength /\ d.pending = L[(d.nonce \div 2) + 1] /\ d.got = S[(d.nonce \div 2) + 1]
    BY <2>5, <2>6, <2>7, StreamAssumption DEF n, InStep
  <2>11. InStep(d, w, L, S)
    BY <1>1, <2>2, <2>5, <2>7, <2>8, <2>9, <2>10 DEF InStep
  <2> QED
    BY <1>1, <1>2, <2>2, <2>4, <2>7, <2>11
<1> QED
  BY <1>3, <1>4

\* A payload: what the receiver passes on is what was written at that place.
LEMMA PayloadKeeps ==
  ASSUME lengths \in Lengths, NEW S, NEW t \in Nat, Sums(S, lengths, t),
         NEW w \in Seq(Byte), NEW c, InStep(c, w, lengths, S),
         c.state = "running", c.keyed, c.pending # NoLength
  PROVE  /\ InStep(TakePayload(c), w, lengths, S)
         /\ TakePayload(c).state = "running" => Len(TakePayload(c).buffer) < Len(c.buffer)
<1> DEFINE L == lengths
           s == c.pending + TagLength
           n == (c.nonce \div 2) + 1
<1>1. /\ Len(L) \in Nat /\ c.buffer \in Seq(Byte) /\ Len(c.buffer) \in Nat /\ c.nonce \in Nat
      /\ c \in ReceiverType /\ UnitOf(c) = c.nonce + 1 /\ c.nonce % 2 = 1
      /\ c.nonce <= 2 * Len(L) /\ c.pending = L[n] /\ c.got = S[n]
  BY InStepType DEF InStep, UnitOf
<1>2. /\ n \in 1..Len(L) /\ (c.nonce + 1) \div 2 = n /\ (c.nonce + 1) % 2 = 0
      /\ c.nonce + 1 <= 2 * Len(L)
  BY <1>1
<1>3. L[n] \in Nat \ {0}
  BY <1>2, ElementOfSeq DEF Lengths
<1>4. Size(L, c.nonce + 1) = s /\ s \in Nat \ {0}
  <2> DEFINE u == c.nonce + 1
  <2>1. u # 0 /\ u % 2 # 1 /\ u \div 2 = n
    BY <1>1, <1>2
  <2>2. s \in Nat \ {0} /\ L[n] + TagLength = s
    BY <1>1, <1>3, StreamAssumption
  <2> HIDE DEF u, n, s
  <2>3. Size(L, u) = s
    BY <2>1, <2>2 DEF Size
  <2> QED
    BY <2>2, <2>3 DEF u
<1> HIDE DEF n
<1>5. CASE Len(c.buffer) < s
  <2> DEFINE d == [c EXCEPT !.state = "starved"]
  <2>1. TakePayload(c) = d
    BY <1>5 DEF TakePayload
  <2> HIDE DEF s
  <2>2. /\ d \in ReceiverType /\ d.state = "starved" /\ d.buffer = c.buffer /\ d.nonce = c.nonce
        /\ d.pending = c.pending /\ d.got = c.got
    BY <1>1 DEF ReceiverType
  <2>3. d.keyed = c.keyed
    BY <1>1, Zenon DEF ReceiverType
  <2> HIDE DEF d
  <2>4. UnitOf(d) = UnitOf(c) /\ Hungry(d, L)
    BY <1>1, <1>4, <1>5, <2>2, <2>3 DEF UnitOf, Hungry
  <2>5. InStep(d, w, L, S)
    BY <1>1, <2>2, <2>3, <2>4 DEF InStep
  <2> QED
    BY <2>1, <2>2, <2>5
<1>6. CASE ~(Len(c.buffer) < s)
  <2> DEFINE r == Rest(c, s)
             d == [c EXCEPT !.buffer = r, !.nonce = @ + 1, !.pending = NoLength, !.got = @ + c.pending]
  <2>1. UnitOf(c) <= 2 * Len(L)
    BY <1>1, <1>2
  <2>2. /\ SubSeq(c.buffer, 1, s) = UnitBytes(c.nonce + 1, s)
        /\ r \in Seq(Byte) /\ Len(r) = Len(c.buffer) - s
        /\ Run(r \o w, (c.nonce + 1) + 1, 2 * Len(L) + 1, L)
    <3> DEFINE u == c.nonce + 1
    <3> HIDE DEF s
    <3>1. u \in Nat /\ UnitOf(c) = u /\ u <= 2 * Len(L) /\ Size(L, u) = s
      BY <1>1, <1>4, <2>1
    <3>2. s <= Len(c.buffer)
      BY <1>1, <1>4, <1>6
    <3> HIDE DEF u, r, d
    <3>3. Taken(c, w, L, u, s)
      BY <3>1, <3>2, Takes
    <3> QED
      BY <3>3 DEF u, r, Taken
  <2>3. Decrypts(c, s)
    BY <2>2 DEF Decrypts, Unit, UnitBytes
  <2>4. TakePayload(c) = d
    BY <1>6, <2>3 DEF TakePayload
  <2> HIDE DEF s, r
  <2>5. S[n + 1] = S[n] + L[n] /\ S[n] \in Nat /\ S[n + 1] \in Nat
    <3>1. n \in 1..(Len(L) + 1) /\ n + 1 \in 1..(Len(L) + 1)
      BY <1>1, <1>2
    <3> QED
      BY <1>2, <3>1 DEF Sums
  <2>6. /\ d.state = "running" /\ d.buffer = r /\ d.nonce = c.nonce + 1 /\ d.pending = NoLength
        /\ d.got = c.got + c.pending
        /\ d \in ReceiverType
    <3>1. c.nonce + 1 \in Nat /\ NoLength \in Nat \cup {NoLength} /\ c.got + c.pending \in Nat
      BY <1>1, <1>3, <2>5
    <3>2. /\ d.state = "running" /\ d.buffer = r /\ d.nonce = c.nonce + 1 /\ d.pending = NoLength
          /\ d.got = c.got + c.pending
      BY <1>1 DEF ReceiverType
    <3>3. d \in ReceiverType
      BY <1>1, <2>2, <3>1, Zenon DEF ReceiverType
    <3> QED
      BY <3>2, <3>3
  <2>7. d.keyed
    BY <1>1, Zenon DEF ReceiverType
  <2> HIDE DEF d
  <2>8. UnitOf(d) = (c.nonce + 1) + 1
    BY <2>6, <2>7 DEF UnitOf
  <2>9. d.got = S[(d.nonce \div 2) + 1]
    BY <1>1, <1>2, <2>5, <2>6
  <2>10. InStep(d, w, L, S)
    BY <1>1, <1>2, <2>2, <2>6, <2>7, <2>8, <2>9 DEF InStep
  <2> QED
    BY <1>1, <1>4, <2>2, <2>4, <2>6, <2>10
<1> QED
  BY <1>5, <1>6

\* A round of the loop keeps the receiver in step, and uses up some of the
\* buffer unless it is the last.
LEMMA StepKeeps ==
  ASSUME lengths \in Lengths, NEW S, NEW t \in Nat, Sums(S, lengths, t),
         NEW w \in Seq(Byte), NEW c, InStep(c, w, lengths, S), c.state = "running"
  PROVE  /\ InStep(Step(c), w, lengths, S)
         /\ Step(c).state = "running" => Len(Step(c).buffer) < Len(c.buffer)
<1>1. CASE ~c.keyed
  BY <1>1, SaltKeeps DEF Step
<1>2. CASE c.keyed /\ c.pending = NoLength
  BY <1>2, LengthKeeps DEF Step
<1>3. CASE c.keyed /\ c.pending # NoLength
  BY <1>3, PayloadKeeps DEF Step
<1> QED
  BY <1>1, <1>2, <1>3

\* The rounds of consume(), unfolded.
Turn(f, c, n) ==
  IF n = 0 THEN c
  ELSE IF f[n - 1].state = "running" THEN Step(f[n - 1]) ELSE f[n - 1]

AreTurns(f, c, last) ==
  /\ f = [n \in 0..last |-> f[n]]
  /\ \A n \in 0..last : f[n] = Turn(f, c, n)

\* The recursive function that counts the rounds exists.
LEMMA TurnsExist ==
  ASSUME NEW c, NEW N \in Nat
  PROVE  \E f : AreTurns(f, c, N)
<1> DEFINE T == {n \in Nat : ~ \E f : AreTurns(f, c, n)}
<1>1. SUFFICES ASSUME ~ \E f : AreTurns(f, c, N) PROVE FALSE
  OBVIOUS
<1>2. PICK m \in T : \A k \in T : m <= k
  <2>1. T \subseteq Nat /\ T # {}
    BY <1>1
  <2> HIDE DEF T
  <2> QED
    BY <2>1, LeastNumber
<1>3. m # 0
  <2>1. SUFFICES ASSUME m = 0 PROVE FALSE
    OBVIOUS
  <2> DEFINE g == [n \in 0..0 |-> c]
  <2>2. g = [n \in 0..0 |-> g[n]] /\ \A n \in 0..0 : g[n] = Turn(g, c, n)
    BY DEF Turn
  <2> HIDE DEF g
  <2>3. AreTurns(g, c, 0)
    BY <2>2 DEF AreTurns
  <2> QED
    BY <1>2, <2>1, <2>3
<1>4. m - 1 \in Nat /\ m - 1 \notin T
  BY <1>2, <1>3
<1>5. PICK f : AreTurns(f, c, m - 1)
  BY <1>4
<1> DEFINE last == Turn(f, c, m)
           g == [n \in 0..m |-> IF n = m THEN last ELSE f[n]]
<1> HIDE DEF last
<1>6. \A n \in 0..m : g[n] = Turn(g, c, n)
  <2>1. TAKE n \in 0..m
  <2>2. CASE n = m
    <3>1. g[n] = last
      BY <2>2
    <3>2. n # 0 => g[n - 1] = f[n - 1]
      BY <2>2
    <3> QED
      BY <2>2, <3>1, <3>2 DEF last, Turn
  <2>3. CASE n # m
    <3>1. g[n] = f[n] /\ n \in 0..(m - 1)
      BY <1>4, <2>3
    <3>2. n # 0 => g[n - 1] = f[n - 1]
      BY <2>3
    <3>3. f[n] = Turn(f, c, n)
      BY <1>5, <3>1 DEF AreTurns
    <3> QED
      BY <3>1, <3>2, <3>3 DEF Turn
  <2> QED
    BY <2>2, <2>3
<1>7. g = [n \in 0..m |-> g[n]]
  OBVIOUS
<1> HIDE DEF g
<1>8. AreTurns(g, c, m)
  BY <1>6, <1>7 DEF AreTurns
<1> QED
  BY <1>2, <1>8

\* consume() leaves what its last round leaves.
LEMMA ConsumedIs ==
  ASSUME NEW c, Len(c.buffer) \in Nat
  PROVE  \E f : AreTurns(f, c, Len(c.buffer) + 1) /\ Consumed(c) = f[Len(c.buffer) + 1]
<1> DEFINE N == Len(c.buffer) + 1
           Def(f) == f = [n \in 0..N |-> Turn(f, c, n)]
<1>1. \E f : Def(f)
  <2>0. N \in Nat
    OBVIOUS
  <2> HIDE DEF N
  <2>1. PICK f : AreTurns(f, c, N)
    BY <2>0, TurnsExist
  <2>2. f = [n \in 0..N |-> Turn(f, c, n)]
    BY <2>1 DEF AreTurns
  <2> QED
    BY <2>2
<1> DEFINE h == CHOOSE f : Def(f)
<1>2. Def(h)
  BY <1>1
<1>3. Consumed(c) = h[N]
  BY DEF Consumed, Turn
<1> HIDE DEF h
<1>4. AreTurns(h, c, N)
  BY <1>2 DEF AreTurns
<1> QED
  BY <1>3, <1>4

\* The loop of consume() ends waiting, with the receiver in step.
LEMMA ConsumedKeeps ==
  ASSUME lengths \in Lengths, NEW S, NEW t \in Nat, Sums(S, lengths, t),
         NEW w \in Seq(Byte), NEW c, InStep(c, w, lengths, S), c.state = "running"
  PROVE  InStep(Consumed(c), w, lengths, S) /\ Consumed(c).state = "starved"
<1> DEFINE N == Len(c.buffer) + 1
<1>1. Len(c.buffer) \in Nat
  BY InStepType
<1>2. PICK f : AreTurns(f, c, N) /\ Consumed(c) = f[N]
  BY <1>1, ConsumedIs
<1> DEFINE Fine(n) == /\ InStep(f[n], w, lengths, S)
                      /\ f[n].state = "running" => Len(f[n].buffer) + n <= Len(c.buffer)
           T == {n \in 0..N : ~Fine(n)}
<1>3. \A n \in 0..N : f[n] = Turn(f, c, n)
  BY <1>2 DEF AreTurns
<1>4. T = {}
  <2>1. SUFFICES ASSUME T # {} PROVE FALSE
    OBVIOUS
  <2>2. PICK m \in T : \A k \in T : m <= k
    <3>1. T \subseteq Nat
      OBVIOUS
    <3> HIDE DEF T
    <3> QED
      BY <2>1, <3>1, LeastNumber
  <2>3. m \in 0..N /\ ~Fine(m)
    OBVIOUS
  <2>4. m # 0
    <3>1. SUFFICES ASSUME m = 0 PROVE FALSE
      OBVIOUS
    <3>2. f[m] = c
      BY <1>3, <2>3, <3>1 DEF Turn
    <3> QED
      BY <1>1, <2>3, <3>1, <3>2
  <2>5. m - 1 \in 0..N /\ Fine(m - 1)
    <3>1. m - 1 \in 0..N /\ m - 1 \notin T
      BY <1>1, <2>2, <2>3, <2>4
    <3> QED
      BY <3>1
  <2>6. f[m] = IF f[m - 1].state = "running" THEN Step(f[m - 1]) ELSE f[m - 1]
    BY <1>3, <2>3, <2>4 DEF Turn
  <2> DEFINE d == f[m - 1]
             e == f[m]
  <2>7. InStep(d, w, lengths, S) /\ Len(d.buffer) \in Nat
    BY <2>5, InStepType
  <2>8. CASE d.state = "running"
    <3>1. e = Step(d) /\ Len(d.buffer) + (m - 1) <= Len(c.buffer)
      BY <2>5, <2>6, <2>8
    <3>2. InStep(e, w, lengths, S) /\ (e.state = "running" => Len(e.buffer) < Len(d.buffer))
      <4> HIDE DEF d, e
      <4> QED
        BY <2>7, <2>8, <3>1, StepKeeps
    <3>3. Len(e.buffer) \in Nat
      BY <3>2, InStepType
    <3>4. e.state = "running" => Len(e.buffer) + m <= Len(c.buffer)
      <4> HIDE DEF d, e
      <4> QED
        BY <1>1, <2>3, <2>7, <3>1, <3>2, <3>3
    <3> QED
      BY <2>3, <3>2, <3>4
  <2>9. CASE d.state # "running"
    BY <2>3, <2>6, <2>7, <2>9
  <2> QED
    BY <2>8, <2>9
<1>5. InStep(f[N], w, lengths, S) /\ (f[N].state = "running" => Len(f[N].buffer) + N <= Len(c.buffer))
  <2>1. N \in 0..N /\ N \notin T
    BY <1>1, <1>4
  <2> QED
    BY <2>1
<1>6. Len(f[N].buffer) \in Nat /\ f[N].state \in {"running", "starved"}
  <2>1. f[N] \in ReceiverType
    BY <1>5 DEF InStep
  <2> QED
    BY <1>5, <2>1, InStepType DEF ReceiverType
<1>7. f[N].state # "running"
  <2> DEFINE left == Len(f[N].buffer)
  <2>1. SUFFICES ASSUME f[N].state = "running" PROVE FALSE
    OBVIOUS
  <2>2. left \in Nat /\ left + N <= Len(c.buffer)
    BY <1>5, <1>6, <2>1
  <2> HIDE DEF left
  <2> QED
    BY <1>1, <2>2
<1> QED
  BY <1>2, <1>5, <1>6, <1>7

-----------------------------------------------------------------------------
(* The sender.                                                              *)

\* The bytes before each payload, when more payloads are written.
LEMMA SumsGrow ==
  ASSUME NEW L \in Lengths, NEW S, NEW t \in Nat, Sums(S, L, t),
         NEW P \in Lengths, NEW R, NEW u \in Nat, Sums(R, P, u)
  PROVE  \E Z : Sums(Z, L \o P, t + u) /\ \A k \in 1..(Len(L) + 1) : Z[k] = S[k]
<1> DEFINE l == Len(L)
           p == Len(P)
           Q == L \o P
           Z == [k \in 1..(l + p + 1) |-> IF k <= l THEN S[k] ELSE t + R[k - l]]
<1>1. l \in Nat /\ p \in Nat
  BY LenProperties DEF Lengths
<1>2. Len(Q) = l + p /\ \A k \in 1..(l + p) : Q[k] = IF k <= l THEN L[k] ELSE P[k - l]
  <2>1. L \in Seq(Nat \ {0}) /\ P \in Seq(Nat \ {0})
    BY DEF Lengths
  <2> QED
    BY <2>1, ConcatProperties
<1>3. /\ S \in [1..(l + 1) -> Nat] /\ S[1] = 0 /\ S[l + 1] = t
      /\ \A k \in 1..l : S[k + 1] = S[k] + L[k]
      /\ \A k \in 1..(l + 1) : S[k] <= t
  BY DEF Sums
<1>4. /\ R \in [1..(p + 1) -> Nat] /\ R[1] = 0 /\ R[p + 1] = u
      /\ \A k \in 1..p : R[k + 1] = R[k] + P[k]
      /\ \A k \in 1..(p + 1) : R[k] <= u
  BY DEF Sums
<1> HIDE DEF l, p, Q
<1>5. \A k \in 1..(l + 1) : Z[k] = S[k] /\ k \in 1..(l + p + 1)
  <2>1. TAKE k \in 1..(l + 1)
  <2>2. CASE k <= l
    BY <1>1, <2>2
  <2>3. CASE k = l + 1
    <3>1. k - l = 1 /\ ~(k <= l) /\ k \in 1..(l + p + 1)
      BY <1>1, <2>3
    <3>2. Z[k] = t + R[1]
      BY <3>1
    <3> QED
      BY <1>3, <1>4, <2>3, <3>1, <3>2
  <2> QED
    BY <1>1, <2>2, <2>3
<1>6. \A j \in 1..(p + 1) : Z[l + j] = t + R[j] /\ l + j \in 1..(l + p + 1) /\ ~(l + j <= l) /\ (l + j) - l = j
  <2>1. TAKE j \in 1..(p + 1)
  <2>2. l + j \in 1..(l + p + 1) /\ ~(l + j <= l) /\ (l + j) - l = j
    BY <1>1
  <2>3. Z[l + j] = t + R[(l + j) - l]
    BY <2>2
  <2> QED
    BY <2>2, <2>3
<1>7. Z \in [1..(l + p + 1) -> Nat]
  <2>1. ASSUME NEW k \in 1..(l + p + 1) PROVE (IF k <= l THEN S[k] ELSE t + R[k - l]) \in Nat
    <3>1. CASE k <= l
      <4>1. k \in 1..(l + 1)
        BY <1>1, <3>1
      <4> QED
        BY <1>3, <3>1, <4>1
    <3>2. CASE ~(k <= l)
      <4>1. k - l \in 1..(p + 1)
        BY <1>1, <3>2
      <4>2. R[k - l] \in Nat
        BY <1>4, <4>1
      <4> QED
        BY <3>2, <4>2
    <3> QED
      BY <3>1, <3>2
  <2> QED
    BY <2>1
<1> HIDE DEF Z
<1>8. Z[1] = 0
  BY <1>1, <1>3, <1>5
<1>9. Z[(l + p) + 1] = t + u
  <2>1. p + 1 \in 1..(p + 1) /\ l + (p + 1) = (l + p) + 1
    BY <1>1
  <2>2. Z[l + (p + 1)] = t + R[p + 1]
    BY <1>6, <2>1
  <2> QED
    BY <1>4, <2>1, <2>2
<1>10. \A k \in 1..(l + p) : Z[k + 1] = Z[k] + Q[k]
  <2>1. TAKE k \in 1..(l + p)
  <2>2. CASE k <= l
    <3>1. k \in 1..(l + 1) /\ k + 1 \in 1..(l + 1) /\ k \in 1..l
      BY <1>1, <2>2
    <3> QED
      BY <1>2, <1>3, <1>5, <2>2, <3>1
  <2>3. CASE ~(k <= l)
    <3> DEFINE j == k - l
    <3>1. j \in 1..p /\ j \in 1..(p + 1) /\ j + 1 \in 1..(p + 1) /\ l + j = k /\ l + (j + 1) = k + 1
      BY <1>1, <2>3
    <3>2. Q[k] = P[j]
      BY <1>2, <2>3
    <3> HIDE DEF j
    <3>3. Z[k] = t + R[j] /\ Z[k + 1] = t + R[j + 1]
      BY <1>6, <3>1
    <3>4. R[j + 1] = R[j] + P[j] /\ R[j] \in Nat /\ R[j + 1] \in Nat
      BY <1>4, <3>1
    <3>5. P[j] \in Nat
      BY <3>1, ElementOfSeq DEF Lengths, p
    <3> QED
      BY <3>2, <3>3, <3>4, <3>5
  <2> QED
    BY <2>2, <2>3
<1>11. \A k \in 1..((l + p) + 1) : Z[k] <= t + u
  <2>1. TAKE k \in 1..((l + p) + 1)
  <2>2. CASE k <= l
    <3>1. k \in 1..(l + 1)
      BY <1>1, <2>2
    <3>2. Z[k] = S[k] /\ S[k] <= t /\ S[k] \in Nat
      BY <1>3, <1>5, <3>1
    <3> QED
      BY <3>2
  <2>3. CASE ~(k <= l)
    <3> DEFINE j == k - l
    <3>1. j \in 1..(p + 1) /\ l + j = k
      BY <1>1, <2>3
    <3> HIDE DEF j
    <3>2. Z[k] = t + R[j] /\ R[j] <= u /\ R[j] \in Nat
      BY <1>4, <1>6, <3>1
    <3> QED
      BY <3>2
  <2> QED
    BY <2>2, <2>3
<1>12. Sums(Z, Q, t + u)
  <2>1. Z \in [1..((l + p) + 1) -> Nat]
    BY <1>1, <1>7
  <2> QED
    BY <1>2, <1>8, <1>9, <1>10, <1>11, <2>1 DEF Sums
<1> QED
  BY <1>5, <1>12 DEF l, Q

\* A write is split into payloads of at least a byte that are all of it.
LEMMA SplitSums ==
  ASSUME NEW n \in Nat
  PROVE  /\ Split(n) \in Lengths
         /\ \E R : Sums(R, Split(n), n)
<1> DEFINE full == n \div MaxPayload
           rem == n % MaxPayload
           F == [i \in 1..full |-> MaxPayload]
           G == IF rem = 0 THEN <<>> ELSE <<rem>>
           p == Len(F \o G)
           R == [k \in 1..(p + 1) |-> IF k <= full + 1 THEN (k - 1) * MaxPayload ELSE n]
<1>1. full \in Nat /\ rem \in 0..(MaxPayload - 1) /\ n = full * MaxPayload + rem
  BY StreamAssumption
<1>2. Split(n) = F \o G
  BY DEF Split
<1>3. F \in Seq(Nat \ {0}) /\ Len(F) = full /\ \A i \in 1..full : F[i] = MaxPayload
  <2> HIDE DEF full
  <2> QED
    BY <1>1, StreamAssumption
<1>4. G \in Seq(Nat \ {0}) /\ Len(G) = (IF rem = 0 THEN 0 ELSE 1) /\ (rem # 0 => G[1] = rem)
  <2> HIDE DEF rem
  <2>1. CASE rem = 0
    BY <2>1
  <2>2. CASE rem # 0
    <3>1. rem \in Nat \ {0}
      BY <1>1, <2>2, StreamAssumption
    <3> QED
      BY <2>2, <3>1
  <2> QED
    BY <2>1, <2>2
<1> HIDE DEF full, rem, F, G
<1>5. /\ F \o G \in Seq(Nat \ {0}) /\ p = full + (IF rem = 0 THEN 0 ELSE 1) /\ p \in Nat
      /\ \A k \in 1..p : (F \o G)[k] = IF k <= full THEN MaxPayload ELSE rem
  <2>1. /\ F \o G \in Seq(Nat \ {0}) /\ Len(F \o G) = Len(F) + Len(G)
        /\ \A i \in 1..Len(F) + Len(G) : (F \o G)[i] = IF i <= Len(F) THEN F[i] ELSE G[i - Len(F)]
    BY <1>3, <1>4, ConcatProperties
  <2>2. p = full + (IF rem = 0 THEN 0 ELSE 1) /\ p \in Nat
    BY <1>1, <1>3, <1>4, <2>1
  <2>3. \A k \in 1..p : (F \o G)[k] = IF k <= full THEN MaxPayload ELSE rem
    <3>1. TAKE k \in 1..p
    <3>2. CASE k <= full
      BY <1>1, <1>3, <1>4, <2>1, <2>2, <3>2
    <3>3. CASE ~(k <= full)
      <4>1. rem # 0 /\ k = full + 1 /\ k - full = 1 /\ k \in 1..Len(F) + Len(G)
        BY <1>1, <1>3, <1>4, <2>2, <3>3
      <4> QED
        BY <1>3, <1>4, <2>1, <3>3, <4>1
    <3> QED
      BY <3>2, <3>3
  <2> QED
    BY <2>1, <2>2, <2>3
<1> HIDE DEF p
<1>6. \A k \in 1..(full + 1) : (k - 1) * MaxPayload \in Nat /\ (k - 1) * MaxPayload <= full * MaxPayload
  BY <1>1, StreamAssumption
<1>7. full * MaxPayload \in Nat /\ full * MaxPayload <= n /\ (rem = 0 => full * MaxPayload = n)
  BY <1>1, StreamAssumption
<1>8. \A k \in 1..(p + 1) : R[k] \in Nat /\ R[k] <= n
  BY <1>1, <1>5, <1>6, <1>7
<1>9. R[1] = 0 /\ R[p + 1] = n
  <2>1. R[1] = 0
    BY <1>1, <1>5, StreamAssumption
  <2>2. CASE rem = 0
    <3>1. p + 1 = full + 1 /\ (full + 1) - 1 = full
      BY <1>1, <1>5, <2>2
    <3>2. R[p + 1] = full * MaxPayload
      BY <1>1, <1>5, <3>1
    <3> QED
      BY <1>7, <2>1, <2>2, <3>2
  <2>3. CASE rem # 0
    <3>1. p + 1 = full + 2
      BY <1>1, <1>5, <2>3
    <3>2. R[p + 1] = n
      BY <1>1, <1>5, <3>1
    <3> QED
      BY <2>1, <3>2
  <2> QED
    BY <2>2, <2>3
<1>10. \A k \in 1..p : R[k + 1] = R[k] + (F \o G)[k]
  <2>1. TAKE k \in 1..p
  <2>2. CASE k <= full
    <3>1. R[k] = (k - 1) * MaxPayload /\ R[k + 1] = ((k + 1) - 1) * MaxPayload
      BY <1>1, <1>5, <2>2
    <3>2. ((k + 1) - 1) * MaxPayload = (k - 1) * MaxPayload + MaxPayload
      BY <1>1, <1>5, StreamAssumption
    <3> QED
      BY <1>5, <2>2, <3>1, <3>2
  <2>3. CASE ~(k <= full)
    <3>1. k = full + 1 /\ rem # 0 /\ k + 1 = full + 2 /\ k - 1 = full
      BY <1>1, <1>5, <2>3
    <3>2. R[k] = full * MaxPayload /\ R[k + 1] = n
      BY <1>1, <1>5, <3>1
    <3> QED
      BY <1>1, <1>5, <2>3, <3>2
  <2> QED
    BY <2>2, <2>3
<1>11. R \in [1..(p + 1) -> Nat]
  <2>1. \A k \in 1..(p + 1) : (IF k <= full + 1 THEN (k - 1) * MaxPayload ELSE n) \in Nat
    BY <1>8
  <2> QED
    BY <2>1
<1> HIDE DEF R
<1>12. Sums(R, F \o G, n)
  BY <1>8, <1>9, <1>10, <1>11 DEF Sums, p
<1> QED
  BY <1>2, <1>5, <1>12 DEF Lengths

\* encryptPayload(): the two units of the k-th payload of a write.
LEMMA EncryptedRun ==
  ASSUME NEW L \in Lengths, NEW parts \in Lengths, sendNonce = 2 * Len(L),
         NEW k \in 1..Len(parts)
  PROVE  Run(Encrypted(parts, k), (sendNonce + 1) + 2 * (k - 1), (sendNonce + 1) + 2 * k, L \o parts)
<1> DEFINE Q == L \o parts
           m == sendNonce + 2 * (k - 1)
           head == Unit(m, HeaderSize)
           body == Unit(m + 1, parts[k] + TagLength)
<1>0. Len(L) \in Nat /\ Len(parts) \in Nat /\ k \in Nat \ {0}
  BY LenProperties DEF Lengths
<1>1. parts[k] \in Nat \ {0} /\ Q[Len(L) + k] = parts[k]
  <2>1. L \in Seq(Nat \ {0}) /\ parts \in Seq(Nat \ {0})
    BY DEF Lengths
  <2>2. /\ Len(L) + k \in 1..Len(L) + Len(parts) /\ ~(Len(L) + k <= Len(L))
        /\ (Len(L) + k) - Len(L) = k
    BY <1>0
  <2>3. Q[Len(L) + k] = parts[k]
    BY <2>1, <2>2, ConcatProperties
  <2> QED
    BY <1>0, <2>1, <2>3, ElementOfSeq
<1> DEFINE j == m + 1
<1>2. j \in Nat /\ j # 0 /\ j % 2 = 1 /\ j + 1 # 0 /\ (j + 1) % 2 # 1 /\ (j + 1) \div 2 = Len(L) + k
      /\ j + 1 \in Nat
  BY <1>0
<1> HIDE DEF Q, m, j
<1>3. Size(Q, j) = HeaderSize /\ HeaderSize \in Nat \ {0}
  BY <1>2, StreamAssumption DEF Size, HeaderSize
<1>4. Size(Q, j + 1) = parts[k] + TagLength /\ parts[k] + TagLength \in Nat \ {0}
  BY <1>1, <1>2, StreamAssumption DEF Size
<1>5. head = [i \in 1..Size(Q, j) |-> [unit |-> j, at |-> i]]
  BY <1>3, Zenon DEF Unit, j
<1>6. body = [i \in 1..Size(Q, j + 1) |-> [unit |-> j + 1, at |-> i]]
  BY <1>4, Zenon DEF Unit, j
<1> HIDE DEF head, body
<1>7. Run(head, j, j + 1, Q)
  BY <1>2, <1>3, <1>5, UnitRun
<1>8. Run(body, j + 1, (j + 1) + 1, Q)
  BY <1>2, <1>4, <1>6, UnitRun
<1>9. Run(head \o body, j, (j + 1) + 1, Q)
  BY <1>2, <1>7, <1>8, ConcatRun
<1>10. j = (sendNonce + 1) + 2 * (k - 1) /\ (j + 1) + 1 = (sendNonce + 1) + 2 * k
  BY <1>0 DEF j, m
<1>11. Encrypted(parts, k) = head \o body
  BY DEF Encrypted, head, body, m
<1> QED
  BY <1>9, <1>10, <1>11 DEF Q

Idle ==
  [buffer |-> buffer, keyed |-> keyed, nonce |-> recvNonce, pending |-> pending,
   got |-> got, state |-> "starved"]

StreamInv ==
  /\ written \in Nat
  /\ lengths \in Lengths
  /\ sendNonce = 2 * Len(lengths)
  /\ wire \in Seq(Byte)
  /\ dead = FALSE
  /\ \E S : Sums(S, lengths, written) /\ InStep(Idle, wire, lengths, S)

\* Nothing is written, nothing is on the wire.
LEMMA InitStreamInv == StreamInit => StreamInv
<1> SUFFICES ASSUME StreamInit PROVE StreamInv
  OBVIOUS
<1> DEFINE S == [k \in 1..1 |-> 0]
           L == <<>>
<1>1. L \in Lengths /\ Len(L) = 0
  BY DEF Lengths
<1> HIDE DEF L
<1>2. Sums(S, L, 0)
  BY <1>1 DEF Sums
<1>3. Size(L, 0) = SaltLength /\ 0 \in Nat /\ Size(L, 0) \in Nat \ {0}
  BY StreamAssumption DEF Size
<1>4. Salt = [i \in 1..Size(L, 0) |-> [unit |-> 0, at |-> i]]
  BY <1>3, Zenon DEF Salt
<1>5. Run(Salt, 0, 0 + 1, L)
  BY <1>3, <1>4, UnitRun
<1>6. Salt \in Seq(Byte) /\ <<>> \o Salt = Salt
  BY <1>5, ConcatEmptySeq DEF Run
<1> DEFINE c == [buffer |-> <<>>, keyed |-> FALSE, nonce |-> 0, pending |-> NoLength,
                 got |-> 0, state |-> "starved"]
<1>7. Idle = c
  BY DEF StreamInit, Idle
<1>8. c \in ReceiverType
  <2>1. <<>> \in Seq(Byte)
    OBVIOUS
  <2> QED
    BY <2>1 DEF ReceiverType
<1>9. /\ c.buffer = <<>> /\ c.nonce = 0 /\ c.pending = NoLength /\ c.got = 0 /\ ~c.keyed
      /\ Len(c.buffer) = 0
  OBVIOUS
<1> HIDE DEF c
<1>10. UnitOf(c) = 0
  BY <1>9 DEF UnitOf
<1>11. Hungry(c, L)
  BY <1>3, <1>9, <1>10 DEF Hungry
<1>12. InStep(c, Salt, L, S)
  BY <1>1, <1>5, <1>6, <1>8, <1>9, <1>10, <1>11 DEF InStep
<1>13. written = 0 /\ lengths = L /\ sendNonce = 0 /\ wire = Salt /\ dead = FALSE
  BY DEF StreamInit, L
<1> HIDE DEF S
<1> QED
  BY <1>1, <1>2, <1>6, <1>7, <1>12, <1>13 DEF StreamInv

\* A sequence is what it is cut into.
LEMMA CutSeq ==
  ASSUME NEW q \in Seq(Byte), NEW n \in 1..Len(q)
  PROVE  /\ SubSeq(q, 1, n) \in Seq(Byte)
         /\ SubSeq(q, n + 1, Len(q)) \in Seq(Byte)
         /\ SubSeq(q, 1, n) \o SubSeq(q, n + 1, Len(q)) = q
<1> DEFINE a == SubSeq(q, 1, n)
           b == SubSeq(q, n + 1, Len(q))
           z == Len(q)
<1>0. z \in Nat /\ n \in Nat \ {0} /\ n <= z
  BY LenProperties
<1>1. a \in Seq(Byte) /\ Len(a) = n /\ \A i \in 1..n : a[i] = q[i]
  <2>1. \A i \in 1..n : q[i] \in Byte
    BY <1>0, ElementOfSeq
  <2>2. /\ a \in Seq(Byte) /\ Len(a) = IF 1 <= n THEN n - 1 + 1 ELSE 0
        /\ \A i \in 1 .. n - 1 + 1 : a[i] = q[1 + i - 1]
    BY <1>0, <2>1, SubSeqProperties
  <2> QED
    BY <1>0, <2>2
<1>2. b \in Seq(Byte) /\ Len(b) = z - n /\ \A i \in 1..(z - n) : b[i] = q[n + i]
  <2>1. \A i \in n + 1 .. z : q[i] \in Byte
    BY <1>0, ElementOfSeq
  <2>2. /\ b \in Seq(Byte) /\ Len(b) = IF n + 1 <= z THEN z - (n + 1) + 1 ELSE 0
        /\ \A i \in 1 .. z - (n + 1) + 1 : b[i] = q[(n + 1) + i - 1]
    BY <1>0, <2>1, SubSeqProperties
  <2> QED
    BY <1>0, <2>2
<1> HIDE DEF a, b
<1>3. /\ a \o b \in Seq(Byte) /\ Len(a \o b) = Len(a) + Len(b)
      /\ \A i \in 1..Len(a) + Len(b) : (a \o b)[i] = IF i <= Len(a) THEN a[i] ELSE b[i - Len(a)]
  BY <1>1, <1>2, ConcatProperties
<1>4. Len(a \o b) = Len(q)
  BY <1>0, <1>1, <1>2, <1>3
<1>5. \A i \in 1..Len(a \o b) : (a \o b)[i] = q[i]
  <2>1. TAKE i \in 1..Len(a \o b)
  <2>2. CASE i <= n
    BY <1>0, <1>1, <1>3, <2>2
  <2>3. CASE ~(i <= n)
    <3>1. PICK j \in 1..(z - n) : j = i - n
      BY <1>0, <1>1, <1>2, <1>3, <2>3
    <3>2. (a \o b)[i] = b[j]
      BY <1>1, <1>3, <2>3, <3>1
    <3>3. n + j = i
      BY <1>0, <1>1, <1>2, <1>3, <3>1
    <3> QED
      BY <1>2, <3>1, <3>2, <3>3
  <2> QED
    BY <2>2, <2>3
<1>6. a \o b = q
  BY <1>3, <1>4, <1>5, SeqEqual
<1> QED
  BY <1>1, <1>2, <1>6 DEF a, b

Associates(a, b, c) == (a \o b) \o c = a \o (b \o c)

\* Concatenation is associative on bytes.
LEMMA BytesAssociate ==
  ASSUME NEW a \in Seq(Byte), NEW b \in Seq(Byte), NEW c \in Seq(Byte)
  PROVE  Associates(a, b, c)
  BY ConcatAssociative DEF Associates

\* Whatever arrives, the receiver ends its loop in step.
LEMMA ConsumeStreamInv ==
  ASSUME StreamInv, Consume
  PROVE  StreamInv'
<1>1. /\ written \in Nat /\ lengths \in Lengths /\ sendNonce = 2 * Len(lengths)
      /\ wire \in Seq(Byte)
  BY DEF StreamInv
<1>2. PICK S : Sums(S, lengths, written) /\ InStep(Idle, wire, lengths, S)
  BY DEF StreamInv
<1>3. PICK n \in 1..Len(wire) :
        LET c == Consumed(Receiver(SubSeq(wire, 1, n)))
        IN  /\ wire' = SubSeq(wire, n + 1, Len(wire))
            /\ buffer' = c.buffer
            /\ keyed' = c.keyed
            /\ recvNonce' = c.nonce
            /\ pending' = c.pending
            /\ got' = c.got
            /\ dead' = (c.state = "dead")
  BY Zenon DEF Consume
<1>4. UNCHANGED <<written, sendNonce, lengths>>
  BY DEF Consume
<1> DEFINE bytes == SubSeq(wire, 1, n)
           w == SubSeq(wire, n + 1, Len(wire))
           c == Receiver(bytes)
           d == Consumed(c)
<1>5. bytes \in Seq(Byte) /\ w \in Seq(Byte) /\ bytes \o w = wire
  BY <1>1, CutSeq
<1> HIDE DEF bytes, w
<1>6. /\ Idle.buffer = buffer /\ Idle.keyed = keyed /\ Idle.nonce = recvNonce
      /\ Idle.pending = pending /\ Idle.got = got
  BY DEF Idle
<1>7. /\ buffer \in Seq(Byte) /\ recvNonce \in Nat /\ pending \in Nat \cup {NoLength} /\ got \in Nat
      /\ keyed \in BOOLEAN
  BY <1>1, <1>2, <1>6, InStepType
<1>8. /\ c.buffer = buffer \o bytes /\ c.keyed = keyed /\ c.nonce = recvNonce
      /\ c.pending = pending /\ c.got = got /\ c.state = "running"
  BY DEF Receiver
<1>9. c \in ReceiverType /\ c.buffer \o w = buffer \o wire
  <2>1. buffer \o bytes \in Seq(Byte)
    BY <1>5, <1>7, ConcatProperties
  <2>2. c \in ReceiverType
    BY <1>7, <2>1, Zenon DEF Receiver, ReceiverType
  <2>3. (buffer \o bytes) \o w = buffer \o wire
    <3>1. Associates(buffer, bytes, w)
      BY <1>5, <1>7, BytesAssociate
    <3> QED
      BY <1>5, <3>1 DEF Associates
  <2> QED
    BY <1>8, <2>2, <2>3
<1> HIDE DEF c
<1>10. UnitOf(c) = UnitOf(Idle)
  BY <1>6, <1>8 DEF UnitOf
<1>11. InStep(c, w, lengths, S)
  BY <1>2, <1>6, <1>8, <1>9, <1>10 DEF InStep
<1>12. InStep(d, w, lengths, S) /\ d.state = "starved"
  BY <1>1, <1>2, <1>5, <1>8, <1>11, ConsumedKeeps
<1>13. Idle' = d
  <2>1. d \in ReceiverType
    BY <1>12 DEF InStep
  <2>2. /\ buffer' = d.buffer /\ keyed' = d.keyed /\ recvNonce' = d.nonce
        /\ pending' = d.pending /\ got' = d.got
    BY <1>3 DEF c, bytes
  <2> HIDE DEF d
  <2>3. d = [buffer |-> d.buffer, keyed |-> d.keyed, nonce |-> d.nonce, pending |-> d.pending,
             got |-> d.got, state |-> d.state]
    BY <2>1 DEF ReceiverType
  <2>4. Idle' = [buffer |-> buffer', keyed |-> keyed', nonce |-> recvNonce', pending |-> pending',
                 got |-> got', state |-> "starved"]
    BY DEF Idle
  <2> QED
    BY <1>12, <2>2, <2>3, <2>4, Zenon
<1>14. wire' = w /\ dead' = FALSE
  <2>1. dead' = (d.state = "dead")
    BY <1>3, Zenon DEF c, bytes
  <2>2. d.state # "dead"
    BY <1>12
  <2>3. wire' = w
    BY <1>3 DEF w
  <2> QED
    BY <2>1, <2>2, <2>3
<1> HIDE DEF d
<1>15. InStep(Idle', wire', lengths', S) /\ Sums(S, lengths', written')
  BY <1>2, <1>4, <1>12, <1>13, <1>14
<1> QED
  BY <1>1, <1>4, <1>5, <1>14, <1>15 DEF StreamInv

\* Whatever is written is split into units that follow those on the wire.
LEMMA WriteStreamInv ==
  ASSUME StreamInv, Write
  PROVE  StreamInv'
<1>1. /\ written \in Nat /\ lengths \in Lengths /\ sendNonce = 2 * Len(lengths)
      /\ wire \in Seq(Byte) /\ dead = FALSE
  BY DEF StreamInv
<1>2. PICK S : Sums(S, lengths, written) /\ InStep(Idle, wire, lengths, S)
  BY DEF StreamInv
<1>3. PICK n \in Writes :
        /\ LET parts == Split(n)
           IN  /\ wire' = wire \o FlattenSeq([k \in 1..Len(parts) |-> Encrypted(parts, k)])
               /\ lengths' = lengths \o parts
               /\ sendNonce' = sendNonce + 2 * Len(parts)
        /\ written' = written + n
        /\ UNCHANGED <<buffer, keyed, recvNonce, pending, got, dead>>
  BY DEF Write
<1> DEFINE L == lengths
           P == Split(n)
           Q == L \o P
           units == [k \in 1..Len(P) |-> Encrypted(P, k)]
           new == FlattenSeq(units)
           v == 2 * Len(L) + 1
           z == 2 * Len(Q) + 1
<1>4. n \in Nat
  BY <1>3, StreamAssumption
<1>5. P \in Lengths /\ \E R : Sums(R, P, n)
  BY <1>4, SplitSums
<1> HIDE DEF P
<1>6. /\ Len(L) \in Nat /\ Len(P) \in Nat /\ Q \in Lengths /\ Len(Q) = Len(L) + Len(P)
      /\ \A k \in 1..Len(L) : Q[k] = L[k]
  <2>1. L \in Seq(Nat \ {0}) /\ P \in Seq(Nat \ {0}) /\ Len(L) \in Nat /\ Len(P) \in Nat
    BY <1>1, <1>5, LenProperties DEF Lengths
  <2>2. /\ Q \in Seq(Nat \ {0}) /\ Len(Q) = Len(L) + Len(P)
        /\ \A k \in 1..Len(L) + Len(P) : Q[k] = IF k <= Len(L) THEN L[k] ELSE P[k - Len(L)]
    BY <2>1, ConcatProperties
  <2> QED
    BY <2>1, <2>2 DEF Lengths
<1>7. v \in Nat /\ z \in Nat /\ v <= 2 * Len(L) + 1 /\ v = sendNonce + 1
      /\ z = v + 2 * Len(P) /\ v <= z
  BY <1>1, <1>6
<1>8. Run(new, v, z, Q)
  <2>1. \A k \in 1..Len(P) : Run(units[k], v + 2 * (k - 1), v + 2 * k, Q)
    <3>1. TAKE k \in 1..Len(P)
    <3>2. Run(Encrypted(P, k), (sendNonce + 1) + 2 * (k - 1), (sendNonce + 1) + 2 * k, Q)
      BY <1>1, <1>5, EncryptedRun
    <3>3. units[k] = Encrypted(P, k)
      OBVIOUS
    <3> QED
      BY <1>7, <3>2, <3>3
  <2>2. Len(units) = Len(P) /\ (Len(units) = 0 => units = <<>>)
    BY <1>6
  <2> HIDE DEF units, v, z, Q
  <2>3. Run(new, v, v + 2 * Len(units), Q)
    BY <1>6, <1>7, <2>1, <2>2, FlattenRun
  <2> QED
    BY <1>7, <2>2, <2>3
<1>9. new \in Seq(Byte)
  BY <1>8 DEF Run
<1>10. wire' = wire \o new /\ lengths' = Q /\ sendNonce' = sendNonce + 2 * Len(P) /\ written' = written + n
  BY <1>3 DEF P
<1>11. Idle' = Idle /\ dead' = dead
  BY <1>3 DEF Idle
<1> HIDE DEF new, units, Q
<1>12. PICK Z : Sums(Z, Q, written + n) /\ \A k \in 1..(Len(L) + 1) : Z[k] = S[k]
  BY <1>1, <1>2, <1>4, <1>5, SumsGrow DEF Q
<1> DEFINE c == Idle
           u == UnitOf(c)
<1>13. /\ u \in Nat /\ c.nonce \in Nat /\ c.buffer \in Seq(Byte) /\ c.nonce <= 2 * Len(L)
       /\ c \in ReceiverType /\ Len(c.buffer) \in Nat
  BY <1>1, <1>2, InStepType DEF InStep
<1> HIDE DEF c
<1>14. Run(c.buffer \o (wire \o new), u, z, Q)
  <2>1. Run(c.buffer \o wire, u, v, L)
    BY <1>2 DEF InStep, c
  <2>2. Run(c.buffer \o wire, u, v, Q)
    BY <1>1, <1>5, <1>7, <1>13, <2>1, RunStands DEF Q
  <2>3. Run((c.buffer \o wire) \o new, u, z, Q)
    BY <1>7, <1>8, <1>13, <2>2, ConcatRun
  <2>4. (c.buffer \o wire) \o new = c.buffer \o (wire \o new)
    <3>1. Associates(c.buffer, wire, new)
      BY <1>1, <1>9, <1>13, BytesAssociate
    <3> QED
      BY <3>1 DEF Associates
  <2> QED
    BY <2>3, <2>4
<1>15. Hungry(c, Q)
  <2>1. CASE u <= 2 * Len(L)
    <3>1. Len(c.buffer) < Size(L, u)
      BY <1>2, <2>1 DEF InStep, Hungry, Idle, c
    <3>2. Size(Q, u) = Size(L, u)
      <4>1. u # 0 /\ u % 2 # 1 => u \div 2 \in 1..Len(L)
        BY <1>6, <1>13, <2>1
      <4> QED
        BY <1>6, <4>1 DEF Size
    <3> QED
      BY <3>1, <3>2 DEF Hungry
  <2>2. CASE ~(u <= 2 * Len(L))
    <3>1. c.buffer = <<>> /\ Len(c.buffer) = 0
      BY <1>1, <1>2, <2>2, NothingLeft DEF c
    <3>2. u <= 2 * Len(Q) => Size(Q, u) \in Nat \ {0}
      BY <1>6, <1>13, SizeType
    <3> QED
      BY <3>1, <3>2 DEF Hungry
  <2> QED
    BY <2>1, <2>2
<1>16. InStep(c, wire \o new, Q, Z)
  <2>1. c.nonce <= 2 * Len(Q)
    BY <1>6, <1>13
  <2>2. c.pending # NoLength => c.nonce % 2 = 1 /\ c.pending = Q[(c.nonce \div 2) + 1]
    <3>1. SUFFICES ASSUME c.pending # NoLength
                   PROVE  c.nonce % 2 = 1 /\ c.pending = Q[(c.nonce \div 2) + 1]
      OBVIOUS
    <3>2. c.nonce % 2 = 1 /\ c.pending = L[(c.nonce \div 2) + 1]
      BY <1>2, <3>1 DEF InStep, c
    <3>3. (c.nonce \div 2) + 1 \in 1..Len(L)
      BY <1>6, <1>13, <3>2
    <3> QED
      BY <1>6, <3>2, <3>3
  <2>3. c.got = Z[(c.nonce \div 2) + 1]
    <3>1. c.got = S[(c.nonce \div 2) + 1]
      BY <1>2 DEF InStep, c
    <3>2. (c.nonce \div 2) + 1 \in 1..(Len(L) + 1)
      BY <1>6, <1>13
    <3> QED
      BY <1>12, <3>1, <3>2
  <2>4. /\ ~c.keyed => c.nonce = 0 /\ c.pending = NoLength
        /\ c.pending = NoLength => c.nonce % 2 = 0
    BY <1>2 DEF InStep, c
  <2> QED
    BY <1>13, <1>14, <1>15, <2>1, <2>2, <2>3, <2>4 DEF InStep
<1>17. written + n \in Nat /\ wire \o new \in Seq(Byte) /\ sendNonce + 2 * Len(P) = 2 * Len(Q)
  <2>1. wire \o new \in Seq(Byte)
    BY <1>1, <1>9, ConcatProperties
  <2> QED
    BY <1>1, <1>4, <1>6, <2>1
<1> QED
  BY <1>1, <1>6, <1>10, <1>11, <1>12, <1>16, <1>17 DEF StreamInv, c

\* Both steps of the stream keep the invariant.
LEMMA NextStreamInv == StreamInv /\ [StreamNext]_streamVars => StreamInv'
<1> SUFFICES ASSUME StreamInv, [StreamNext]_streamVars PROVE StreamInv'
  OBVIOUS
<1>1. CASE Write
  BY <1>1, WriteStreamInv
<1>2. CASE Consume
  BY <1>2, ConsumeStreamInv
<1>3. CASE Drained \/ UNCHANGED streamVars
  <2>1. UNCHANGED streamVars
    BY <1>3 DEF Drained
  <2>2. Idle' = Idle /\ UNCHANGED <<written, lengths, sendNonce, wire, dead>>
    BY <2>1 DEF streamVars, Idle
  <2> QED
    BY <2>2 DEF StreamInv
<1> QED
  BY <1>1, <1>2, <1>3 DEF StreamNext

\* A receiver that is in step is faithful, and holds nothing back.
LEMMA StreamInvFaithful == StreamInv => StreamIsFaithful
<1> SUFFICES ASSUME StreamInv PROVE StreamIsFaithful
  OBVIOUS
<1>1. /\ written \in Nat /\ lengths \in Lengths /\ sendNonce = 2 * Len(lengths)
      /\ wire \in Seq(Byte) /\ dead = FALSE
  BY DEF StreamInv
<1>2. PICK S : Sums(S, lengths, written) /\ InStep(Idle, wire, lengths, S)
  BY DEF StreamInv
<1> DEFINE L == lengths
           c == Idle
           u == UnitOf(c)
<1>3. c.nonce = recvNonce /\ c.buffer = buffer /\ c.got = got
  BY DEF Idle
<1>4. /\ u \in Nat /\ c.nonce \in Nat /\ c.buffer \in Seq(Byte) /\ c.nonce <= 2 * Len(L)
      /\ Len(c.buffer) \in Nat /\ Len(L) \in Nat
  BY <1>1, <1>2, InStepType DEF InStep
<1>5. got = S[(recvNonce \div 2) + 1] /\ (recvNonce \div 2) + 1 \in 1..(Len(L) + 1)
  BY <1>2, <1>3, <1>4 DEF InStep
<1>6. got <= written
  BY <1>2, <1>5 DEF Sums
<1>7. ASSUME wire = <<>>
      PROVE  got = written /\ recvNonce = sendNonce /\ buffer = <<>>
  <2>1. Run(buffer \o wire, u, 2 * Len(L) + 1, L) /\ Hungry(c, L)
    BY <1>2, <1>3 DEF InStep, Idle
  <2>2. Run(buffer, u, 2 * Len(L) + 1, L)
    BY <1>3, <1>4, <1>7, <2>1, ConcatEmptySeq
  <2>3. ~(u <= 2 * Len(L))
    <3>1. SUFFICES ASSUME u <= 2 * Len(L) PROVE FALSE
      OBVIOUS
    <3>2. Len(buffer) < Size(L, u)
      BY <1>3, <2>1, <3>1 DEF Hungry
    <3>3. Size(L, u) <= Len(buffer)
      <4>1. u < 2 * Len(L) + 1 /\ 2 * Len(L) + 1 <= 2 * Len(L) + 1 /\ 2 * Len(L) + 1 \in Nat
        BY <1>4, <3>1
      <4> HIDE DEF u
      <4> QED
        BY <1>1, <1>4, <2>2, <4>1, FirstUnit
    <3>4. Size(L, u) \in Nat /\ Len(buffer) \in Nat
      BY <1>1, <1>3, <1>4, <3>1, SizeType
    <3> QED
      BY <3>2, <3>3, <3>4
  <2>4. c.nonce = 2 * Len(L) /\ c.buffer = <<>>
    BY <1>1, <1>2, <2>3, NothingLeft
  <2>5. (recvNonce \div 2) + 1 = Len(L) + 1
    BY <1>3, <1>4, <2>4
  <2> QED
    BY <1>1, <1>2, <1>3, <1>5, <2>4, <2>5 DEF Sums
<1> QED
  BY <1>1, <1>6, <1>7 DEF StreamIsFaithful

\* However the wire cuts the stream, it is never torn down, what is passed on
\* was written, and nothing is held back once all bytes are there: consume()
\* takes apart what encryptPayload() put together (ss-transport.ts).
THEOREM StreamStaysFaithful == StreamInit /\ [][StreamNext]_streamVars => []StreamIsFaithful
  BY InitStreamInv, NextStreamInv, StreamInvFaithful, PTL

-----------------------------------------------------------------------------
(* The body (tunnel-fetch.ts).  Texts, what they are split into, and where  *)
(* IndexOf() finds the end of a line.                                       *)

Char == STRING \cup {"h", "r", "n", "0", "1", "2", "3"}
Text == Seq(Char)

\* The payload of a chunk is text.
LEMMA StringsAreText ==
  ASSUME NEW s \in Seq(STRING)
  PROVE  s \in Text
<1>1. Len(s) \in Nat /\ s = [i \in 1..Len(s) |-> s[i]]
  BY LenProperties
<1>2. \A i \in 1..Len(s) : s[i] \in Char
  BY <1>1, ElementOfSeq DEF Char
<1> QED
  BY <1>1, <1>2 DEF Text

\* The empty text, CRLF and single bytes.
LEMMA TextIs ==
  /\ <<>> \in Text /\ CRLF \in Text /\ Len(CRLF) = 2 /\ CRLF[1] = "r" /\ CRLF[2] = "n"
  /\ \A x \in Char : <<x>> \in Text /\ Len(<<x>>) = 1 /\ <<x>>[1] = x
<1>1. "r" \in Char /\ "n" \in Char
  BY DEF Char
<1>2. <<>> \in Text
  BY DEF Text
<1>3. CRLF \in Text
  BY <1>1 DEF Text, CRLF
<1>4. Len(CRLF) = 2 /\ CRLF[1] = "r" /\ CRLF[2] = "n"
  BY DEF CRLF
<1>5. \A x \in Char : <<x>> \in Text
  BY DEF Text
<1>6. \A x \in Char : Len(<<x>>) = 1 /\ <<x>>[1] = x
  OBVIOUS
<1> QED
  BY <1>2, <1>3, <1>4, <1>5, <1>6

DigitOf(x) == SelectInSeq(Digits, LAMBDA d : d = x)

\* A digit is found at its own place, and "0" at none.
LEMMA DigitIs ==
  ASSUME NEW x
  PROVE  /\ \A i \in 1..3 : x = Digits[i] => DigitOf(x) = i
         /\ x = "0" => DigitOf(x) = 0
<1> DEFINE I == {i \in 1..3 : Digits[i] = x}
<1>1. Len(Digits) = 3 /\ Digits[1] = "1" /\ Digits[2] = "2" /\ Digits[3] = "3"
  BY DEF Digits
<1>2. DigitOf(x) = IF I # {} THEN CHOOSE i \in I : \A j \in I : i <= j ELSE 0
  BY <1>1 DEF DigitOf, SelectInSeq, Min
<1>3. ASSUME NEW i \in 1..3, x = Digits[i]
      PROVE  DigitOf(x) = i
  <2>1. I = {i}
    BY <1>1, <1>3
  <2> DEFINE k == CHOOSE e \in I : \A j \in I : e <= j
  <2>2. k \in I
    <3>1. i \in I /\ \A j \in I : i <= j
      BY <2>1
    <3> HIDE DEF I
    <3> QED
      BY <3>1
  <2>3. I # {} /\ k = i
    BY <2>1, <2>2
  <2> HIDE DEF k, I
  <2> QED
    BY <1>2, <2>3 DEF k
<1>4. x = "0" => I = {}
  BY <1>1
<1> QED
  BY <1>2, <1>3, <1>4

TextsAssociate(a, b, c) == (a \o b) \o c = a \o (b \o c)

\* Concatenation is associative on texts.
LEMMA TextAssociates ==
  ASSUME NEW a \in Text, NEW b \in Text, NEW c \in Text
  PROVE  TextsAssociate(a, b, c)
  BY ConcatAssociative DEF TextsAssociate, Text

\* What the concatenation of two texts is, byte by byte.
LEMMA TextConcat ==
  ASSUME NEW a \in Text, NEW b \in Text
  PROVE  /\ a \o b \in Text /\ Len(a \o b) = Len(a) + Len(b)
         /\ Len(a) \in Nat /\ Len(b) \in Nat
         /\ \A i \in 1..Len(a) + Len(b) : (a \o b)[i] = IF i <= Len(a) THEN a[i] ELSE b[i - Len(a)]
<1>1. a \o b \in Text /\ Len(a \o b) = Len(a) + Len(b)
      /\ \A i \in 1..Len(a) + Len(b) : (a \o b)[i] = IF i <= Len(a) THEN a[i] ELSE b[i - Len(a)]
  BY ConcatProperties DEF Text
<1> QED
  BY <1>1, LenProperties DEF Text

\* A text is its first n bytes followed by the others.
LEMMA CutText ==
  ASSUME NEW q \in Text, NEW n \in 0..Len(q)
  PROVE  /\ SubSeq(q, 1, n) \in Text /\ Len(SubSeq(q, 1, n)) = n
         /\ \A i \in 1..n : SubSeq(q, 1, n)[i] = q[i]
         /\ Drop(q, n) \in Text /\ Len(Drop(q, n)) = Len(q) - n
         /\ SubSeq(q, 1, n) \o Drop(q, n) = q
<1> DEFINE a == SubSeq(q, 1, n)
           b == Drop(q, n)
           z == Len(q)
<1>0. z \in Nat /\ n \in Nat /\ n <= z
  BY LenProperties DEF Text
<1>1. a \in Text /\ Len(a) = n /\ \A i \in 1..n : a[i] = q[i]
  <2>1. \A i \in 1..n : q[i] \in Char
    BY <1>0, ElementOfSeq DEF Text
  <2>2. /\ a \in Text /\ Len(a) = IF 1 <= n THEN n - 1 + 1 ELSE 0
        /\ \A i \in 1 .. n - 1 + 1 : a[i] = q[1 + i - 1]
    BY <1>0, <2>1, SubSeqProperties DEF Text
  <2> QED
    BY <1>0, <2>2
<1>2. b \in Text /\ Len(b) = z - n /\ \A i \in 1..(z - n) : b[i] = q[n + i]
  <2>1. \A i \in n + 1 .. z : q[i] \in Char
    BY <1>0, ElementOfSeq DEF Text
  <2>2. /\ b \in Text /\ Len(b) = IF n + 1 <= z THEN z - (n + 1) + 1 ELSE 0
        /\ \A i \in 1 .. z - (n + 1) + 1 : b[i] = q[(n + 1) + i - 1]
    BY <1>0, <2>1, SubSeqProperties DEF Text, Drop
  <2> QED
    BY <1>0, <2>2
<1> HIDE DEF a, b
<1>3. /\ a \o b \in Text /\ Len(a \o b) = Len(a) + Len(b)
      /\ \A i \in 1..Len(a) + Len(b) : (a \o b)[i] = IF i <= Len(a) THEN a[i] ELSE b[i - Len(a)]
  BY <1>1, <1>2, TextConcat
<1>4. Len(a \o b) = Len(q)
  BY <1>0, <1>1, <1>2, <1>3
<1>5. \A i \in 1..Len(a \o b) : (a \o b)[i] = q[i]
  <2>1. TAKE i \in 1..Len(a \o b)
  <2>2. CASE i <= n
    BY <1>0, <1>1, <1>3, <2>2
  <2>3. CASE ~(i <= n)
    <3>1. PICK j \in 1..(z - n) : j = i - n
      BY <1>0, <1>1, <1>2, <1>3, <2>3
    <3>2. (a \o b)[i] = b[j]
      BY <1>1, <1>3, <2>3, <3>1
    <3>3. n + j = i
      BY <1>0, <1>1, <1>2, <1>3, <3>1
    <3> QED
      BY <1>2, <3>1, <3>2, <3>3
  <2> QED
    BY <2>2, <2>3
<1>6. a \o b = q
  BY <1>3, <1>4, <1>5, SeqEqual DEF Text
<1> QED
  BY <1>1, <1>2, <1>6 DEF a, b

\* The front of q is a, and b is what comes behind it.
Parted(q, w, a, b) ==
  /\ SubSeq(q, 1, Len(a)) = a
  /\ Drop(q, Len(a)) \in Text
  /\ Len(Drop(q, Len(a))) = Len(q) - Len(a)
  /\ Drop(q, Len(a)) \o w = b

\* Of two ways to split a text, the shorter front begins the longer one.
LEMMA Parts ==
  ASSUME NEW q \in Text, NEW w \in Text, NEW a \in Text, NEW b \in Text,
         q \o w = a \o b, Len(a) <= Len(q)
  PROVE  Parted(q, w, a, b)
<1> DEFINE n == Len(a)
           f == SubSeq(q, 1, n)
           r == Drop(q, n)
<1>1. n \in Nat /\ Len(q) \in Nat /\ n \in 0..Len(q)
  BY LenProperties DEF Text
<1>2. /\ f \in Text /\ Len(f) = n /\ \A i \in 1..n : f[i] = q[i]
      /\ r \in Text /\ Len(r) = Len(q) - n /\ f \o r = q
  BY <1>1, CutText
<1>3. \A i \in 1..n : q[i] = a[i]
  <2>1. TAKE i \in 1..n
  <2>2. (q \o w)[i] = q[i]
    BY <1>1, TextConcat
  <2>3. (a \o b)[i] = a[i]
    BY <1>1, TextConcat
  <2> QED
    BY <2>2, <2>3
<1> HIDE DEF f, r
<1>4. f = a
  BY <1>2, <1>3, SeqEqual DEF Text
<1>5. r \o w = b
  <2>1. TextsAssociate(f, r, w)
    BY <1>2, TextAssociates
  <2>2. a \o (r \o w) = a \o b
    BY <1>2, <1>4, <2>1 DEF TextsAssociate
  <2>3. r \o w \in Text
    BY <1>2, TextConcat
  <2> QED
    BY <2>2, <2>3, ConcatSimplifications DEF Text
<1> QED
  BY <1>2, <1>4, <1>5 DEF Parted, f, r

\* A text is a prefix of itself with more behind it.
LEMMA IsFront ==
  ASSUME NEW a \in Text, NEW b \in Text
  PROVE  IsPrefix(a, a \o b)
<1> DEFINE q == a \o b
           n == Len(a)
<1>1. /\ q \in Text /\ Len(q) = Len(a) + Len(b) /\ Len(a) \in Nat /\ Len(b) \in Nat
      /\ \A i \in 1..Len(a) + Len(b) : q[i] = IF i <= Len(a) THEN a[i] ELSE b[i - Len(a)]
  BY TextConcat
<1>2. n \in 0..Len(q) /\ n \in 0..Len(a)
  BY <1>1
<1> HIDE DEF q
<1>3. /\ SubSeq(q, 1, n) \in Text /\ Len(SubSeq(q, 1, n)) = n
      /\ \A i \in 1..n : SubSeq(q, 1, n)[i] = q[i]
  BY <1>1, <1>2, CutText
<1>4. /\ SubSeq(a, 1, n) \in Text /\ Len(SubSeq(a, 1, n)) = n
      /\ \A i \in 1..n : SubSeq(a, 1, n)[i] = a[i]
  BY <1>2, CutText
<1>5. \A i \in 1..n : q[i] = a[i]
  BY <1>1
<1>6. SubSeq(a, 1, n) = SubSeq(q, 1, n)
  BY <1>3, <1>4, <1>5, SeqEqual DEF Text
<1>7. Len(a) <= Len(q)
  BY <1>1
<1> QED
  BY <1>6, <1>7 DEF IsPrefix, q

Begins(x, p, more) == <<x>> \o (p \o more)

\* A line that begins with one byte other than p's first, and then p: p is
\* found behind that byte, as soon as it is all there.
LEMMA FoundAtTwo ==
  ASSUME NEW q \in Text, NEW w \in Text, NEW p \in Text, Len(p) # 0, NEW x \in Char, x # p[1],
         NEW more \in Text, q \o w = Begins(x, p, more)
  PROVE  IndexOf(q, p) = IF Len(q) < Len(p) + 1 THEN 0 ELSE 2
<1> DEFINE z == Len(p)
           l == <<x>>
           t == l \o (p \o more)
           at == {i \in 1..(Len(q) - Len(p) + 1) : SubSeq(q, i, i + Len(p) - 1) = p}
<1>1. z \in Nat \ {0} /\ Len(q) \in Nat /\ Len(w) \in Nat /\ Len(more) \in Nat
  BY LenProperties DEF Text
<1>2. /\ p \o more \in Text /\ Len(p \o more) = z + Len(more)
      /\ \A i \in 1..z : (p \o more)[i] = p[i]
  BY <1>1, TextConcat
<1>3. l \in Text /\ Len(l) = 1 /\ l[1] = x
  BY TextIs
<1> HIDE DEF l
<1>4. /\ Len(t) = 1 + (z + Len(more)) /\ t[1] = x /\ \A i \in 1..z : t[i + 1] = p[i]
  <2> DEFINE b == p \o more
  <2>0. b \in Text /\ Len(b) = z + Len(more) /\ \A i \in 1..z : b[i] = p[i]
    BY <1>2
  <2> HIDE DEF b
  <2>1. /\ Len(t) = 1 + (z + Len(more))
        /\ \A i \in 1..1 + (z + Len(more)) : t[i] = IF i <= 1 THEN l[i] ELSE b[i - 1]
    <3>1. /\ Len(l \o b) = Len(l) + Len(b)
          /\ \A i \in 1..Len(l) + Len(b) : (l \o b)[i] = IF i <= Len(l) THEN l[i] ELSE b[i - Len(l)]
      BY <1>3, <2>0, TextConcat
    <3>2. t = l \o b
      BY DEF b
    <3> HIDE DEF t
    <3> QED
      BY <1>3, <2>0, <3>1, <3>2
  <2>2. t[1] = x
    BY <1>1, <1>3, <2>1
  <2>3. \A i \in 1..z : t[i + 1] = p[i]
    <3>1. TAKE i \in 1..z
    <3>2. i + 1 \in 1..1 + (z + Len(more)) /\ ~(i + 1 <= 1) /\ (i + 1) - 1 = i
      BY <1>1
    <3> QED
      BY <2>0, <2>1, <3>2
  <2> QED
    BY <2>1, <2>2, <2>3
<1> HIDE DEF t
<1>5. \A i \in 1..Len(q) : q[i] = t[i]
  <2>1. TAKE i \in 1..Len(q)
  <2>2. (q \o w)[i] = q[i]
    BY <1>1, TextConcat
  <2>3. q \o w = t
    BY Zenon DEF t, l, Begins
  <2> QED
    BY <2>2, <2>3
<1>6. 1 \notin at
  <2>1. SUFFICES ASSUME 1 \in at PROVE FALSE
    OBVIOUS
  <2>2. z \in 0..Len(q) /\ SubSeq(q, 1, z) = p
    BY <1>1, <2>1
  <2>3. SubSeq(q, 1, z)[1] = q[1]
    BY <1>1, <2>2, CutText
  <2>4. 1 \in 1..Len(q) /\ 1 \in 1..z
    BY <1>1, <2>2
  <2>5. q[1] = x
    BY <1>4, <1>5, <2>4
  <2> QED
    BY <2>2, <2>3, <2>5
<1>7. CASE Len(q) < z + 1
  <2>1. at \subseteq 1..(Len(q) - z + 1)
    OBVIOUS
  <2>2. at = {}
    <3> HIDE DEF at
    <3> QED
      BY <1>1, <1>6, <1>7, <2>1
  <2> QED
    BY <1>7, <2>2 DEF IndexOf
<1>8. CASE ~(Len(q) < z + 1)
  <2> DEFINE s == SubSeq(q, 2, z + 1)
  <2>1. s \in Seq(Char) /\ Len(s) = z /\ \A i \in 1..z : s[i] = q[i + 1]
    <3>1. \A i \in 2 .. z + 1 : q[i] \in Char
      BY <1>1, <1>8, ElementOfSeq DEF Text
    <3>2. /\ s \in Seq(Char) /\ Len(s) = IF 2 <= z + 1 THEN z + 1 - 2 + 1 ELSE 0
          /\ \A i \in 1 .. z + 1 - 2 + 1 : s[i] = q[2 + i - 1]
      BY <1>1, <3>1, SubSeqProperties
    <3> QED
      BY <1>1, <3>2
  <2> HIDE DEF s
  <2>2. \A i \in 1..z : s[i] = p[i]
    <3>1. TAKE i \in 1..z
    <3>2. i + 1 \in 1..Len(q)
      BY <1>1, <1>8
    <3>3. q[i + 1] = t[i + 1]
      BY <1>5, <3>2
    <3> QED
      BY <1>4, <2>1, <3>3
  <2>3. s = p
    BY <2>1, <2>2, SeqEqual DEF Text
  <2>4. 2 \in at
    <3>1. 2 \in 1..(Len(q) - z + 1) /\ 2 + z - 1 = z + 1
      BY <1>1, <1>8
    <3> QED
      BY <2>3, <3>1 DEF s
  <2>5. \A j \in at : 2 <= j
    BY <1>1, <1>6
  <2> DEFINE k == CHOOSE i \in at : \A j \in at : i <= j
  <2>6. IndexOf(q, p) = k
    BY <2>4 DEF IndexOf
  <2>7. at \subseteq Int
    BY <1>1
  <2> HIDE DEF at
  <2>8. k \in at /\ \A j \in at : k <= j
    BY <2>4, <2>5
  <2> HIDE DEF k
  <2>9. k = 2
    BY <2>4, <2>5, <2>7, <2>8
  <2> QED
    BY <1>8, <2>6, <2>9
<1> QED
  BY <1>7, <1>8

\* F[k] is made of the first k texts and G[k] of the others.
Fronts(F, G, seqs, n) ==
  /\ F \in [0..n -> Text] /\ G \in [0..n -> Text]
  /\ F[0] = <<>> /\ G[n] = <<>>
  /\ \A k \in 1..n : F[k] = F[k - 1] \o seqs[k] /\ G[k - 1] = seqs[k] \o G[k]
  /\ \A k \in 0..n : F[k] \o G[k] = FlattenSeq(seqs)

\* The empty text adds nothing.
LEMMA TextIdentity ==
  ASSUME NEW a \in Text
  PROVE  a \o <<>> = a /\ <<>> \o a = a
  BY ConcatEmptySeq DEF Text

\* Equal fronts can be taken off.
LEMMA TextCancels ==
  ASSUME NEW a \in Text, NEW b \in Text, NEW c \in Text, a \o b = a \o c
  PROVE  b = c
  BY ConcatSimplifications DEF Text

\* A flattened sequence is split behind each of its elements.
LEMMA FlattenFronts ==
  ASSUME NEW seqs, Len(seqs) \in Nat, Len(seqs) = 0 => seqs = <<>>,
         \A k \in 1..Len(seqs) : seqs[k] \in Text
  PROVE  \E F, G : Fronts(F, G, seqs, Len(seqs))
<1> DEFINE n == Len(seqs)
<1>0. <<>> \in Text
  BY TextIs
<1>1. CASE n = 0
  <2> DEFINE F == [k \in 0..0 |-> <<>>]
  <2>1. F \in [0..n -> Text] /\ F[0] = <<>> /\ F[n] = <<>> /\ \A k \in 0..n : F[k] = <<>>
    BY <1>0, <1>1
  <2>2. FlattenSeq(seqs) = <<>>
    BY <1>1 DEF FlattenSeq
  <2>3. <<>> \o <<>> = <<>>
    BY <1>0, TextIdentity
  <2>4. 1..n = {}
    BY <1>1
  <2> HIDE DEF F
  <2>5. Fronts(F, F, seqs, n)
    BY <2>1, <2>2, <2>3, <2>4 DEF Fronts
  <2> QED
    BY <2>5
<1>2. CASE n # 0
  <2>1. PICK f : IsFlatten(f, seqs, n) /\ FlattenSeq(seqs) = f[n]
    BY <1>2, FlattenIs
  <2>2. n \in Nat \ {0}
    BY <1>2
  <2>3. \A k \in 1..n : f[k] = IF k = 1 THEN seqs[k] ELSE f[k - 1] \o seqs[k]
    BY <2>1 DEF IsFlatten, FlattenFrom
  <2> DEFINE Wrong(k) == f[k] \notin Text
             T == {k \in 1..n : Wrong(k)}
  <2>4. T = {}
    <3>1. SUFFICES ASSUME T # {} PROVE FALSE
      OBVIOUS
    <3>2. PICK m \in T : \A k \in T : m <= k
      <4>1. T \subseteq Nat
        OBVIOUS
      <4> HIDE DEF T
      <4> QED
        BY <3>1, <4>1, LeastNumber
    <3>3. m \in 1..n /\ Wrong(m)
      OBVIOUS
    <3>4. m # 1
      BY <2>3, <3>3
    <3>5. m - 1 \in 1..n /\ m - 1 \notin T
      BY <2>2, <3>2, <3>3, <3>4
    <3>6. f[m - 1] \in Text
      BY <3>5
    <3>7. f[m] = f[m - 1] \o seqs[m] /\ seqs[m] \in Text
      BY <2>3, <3>3, <3>4
    <3>8. f[m - 1] \o seqs[m] \in Text
      BY <3>6, <3>7, TextConcat
    <3> QED
      BY <3>3, <3>7, <3>8
  <2> DEFINE F == [k \in 0..n |-> IF k = 0 THEN <<>> ELSE f[k]]
  <2>5. F \in [0..n -> Text] /\ F[0] = <<>> /\ F[n] = f[n]
    <3>1. \A k \in 0..n : (IF k = 0 THEN <<>> ELSE f[k]) \in Text
      <4>1. TAKE k \in 0..n
      <4>2. k # 0 => k \in 1..n /\ k \notin T
        BY <2>2, <2>4
      <4> QED
        BY <1>0, <4>2
    <3> HIDE DEF n
    <3> QED
      BY <2>2, <3>1
  <2>6. \A k \in 1..n : F[k] = F[k - 1] \o seqs[k]
    <3>1. TAKE k \in 1..n
    <3>2. k \in 0..n /\ k - 1 \in 0..n /\ k # 0 /\ F[k] = f[k]
      BY <2>2
    <3>3. CASE k = 1
      <4>1. F[k] = seqs[k] /\ F[k - 1] = <<>> /\ seqs[k] \in Text
        BY <2>3, <2>5, <3>2, <3>3
      <4> QED
        BY <4>1, TextIdentity
    <3>4. CASE k # 1
      <4>1. F[k - 1] = f[k - 1]
        BY <3>2, <3>4
      <4> QED
        BY <2>3, <3>2, <3>4, <4>1
    <3> QED
      BY <3>3, <3>4
  <2> HIDE DEF F, T
  <2> DEFINE Lost(j) == ~ \E g \in Text : F[n - j] \o g = F[n]
             U == {j \in 0..n : Lost(j)}
  <2>7. \A k \in 0..n : F[k] \in Text
    BY <2>5
  <2>8. U = {}
    <3>1. SUFFICES ASSUME U # {} PROVE FALSE
      OBVIOUS
    <3>2. PICK m \in U : \A k \in U : m <= k
      <4>1. U \subseteq Nat
        OBVIOUS
      <4> HIDE DEF U
      <4> QED
        BY <3>1, <4>1, LeastNumber
    <3>3. m \in 0..n /\ Lost(m)
      BY <3>2
    <3>4. m # 0
      <4>1. F[n] \o <<>> = F[n]
        BY <2>2, <2>7, TextIdentity
      <4>2. ASSUME m = 0 PROVE F[n - m] \o <<>> = F[n]
        <5>1. n - m = n
          BY <2>2, <4>2
        <5> QED
          BY <4>1, <5>1
      <4> QED
        BY <1>0, <3>3, <4>2
    <3>5. m - 1 \in 0..n /\ m - 1 \notin U
      <4>1. m \in 0..n
        BY <3>3
      <4> HIDE DEF U
      <4> QED
        BY <2>2, <3>2, <3>4, <4>1
    <3>6. PICK g \in Text : F[n - (m - 1)] \o g = F[n]
      BY <3>5
    <3> DEFINE k == n - m
    <3>7. k \in 0..n /\ k + 1 \in 1..n /\ n - (m - 1) = k + 1 /\ (k + 1) - 1 = k
      BY <2>2, <3>3, <3>4
    <3> HIDE DEF k
    <3>8. F[k + 1] = F[k] \o seqs[k + 1] /\ seqs[k + 1] \in Text /\ F[k] \in Text
      BY <2>6, <2>7, <3>7
    <3>9. TextsAssociate(F[k], seqs[k + 1], g)
      BY <3>8, TextAssociates
    <3>10. F[k] \o (seqs[k + 1] \o g) = F[n]
      BY <3>6, <3>7, <3>8, <3>9 DEF TextsAssociate
    <3>11. seqs[k + 1] \o g \in Text
      BY <3>8, TextConcat
    <3> QED
      BY <3>3, <3>10, <3>11 DEF k
  <2> DEFINE G == [k \in 0..n |-> CHOOSE g \in Text : F[k] \o g = F[n]]
  <2>9. \A k \in 0..n : G[k] \in Text /\ F[k] \o G[k] = F[n]
    <3>1. TAKE k \in 0..n
    <3>2. n - k \in 0..n /\ n - k \notin U /\ n - (n - k) = k
      <4> HIDE DEF U
      <4> QED
        BY <2>2, <2>8
    <3>3. \E g \in Text : F[k] \o g = F[n]
      <4> DEFINE j == n - k
      <4>1. j \in 0..n /\ ~Lost(j) /\ n - j = k
        BY <3>2
      <4> HIDE DEF j
      <4> QED
        BY <4>1
    <3> QED
      BY <3>3
  <2>10. G \in [0..n -> Text]
    BY <2>9
  <2> HIDE DEF G, U
  <2>11. G[n] = <<>>
    <3>1. n \in 0..n
      BY <2>2
    <3>2. F[n] \o G[n] = F[n] \o <<>>
      BY <2>7, <2>9, <3>1, TextIdentity
    <3> QED
      BY <1>0, <2>7, <2>9, <3>1, <3>2, TextCancels
  <2>12. \A k \in 1..n : G[k - 1] = seqs[k] \o G[k]
    <3>1. TAKE k \in 1..n
    <3>2. k \in 0..n /\ k - 1 \in 0..n
      BY <2>2
    <3>3. /\ F[k - 1] \in Text /\ seqs[k] \in Text /\ G[k] \in Text /\ G[k - 1] \in Text
          /\ F[k] = F[k - 1] \o seqs[k]
      BY <2>6, <2>7, <2>9, <3>2
    <3>4. TextsAssociate(F[k - 1], seqs[k], G[k])
      BY <3>3, TextAssociates
    <3>5. F[k - 1] \o (seqs[k] \o G[k]) = F[k - 1] \o G[k - 1]
      BY <2>9, <3>2, <3>3, <3>4 DEF TextsAssociate
    <3>6. seqs[k] \o G[k] \in Text
      BY <3>3, TextConcat
    <3> QED
      BY <3>3, <3>5, <3>6, TextCancels
  <2>13. \A k \in 0..n : F[k] \o G[k] = FlattenSeq(seqs)
    BY <2>1, <2>5, <2>9
  <2>14. Fronts(F, G, seqs, n)
    BY <2>5, <2>6, <2>10, <2>11, <2>12, <2>13 DEF Fronts
  <2> QED
    BY <2>14
<1> QED
  BY <1>1, <1>2

-----------------------------------------------------------------------------
(* The layout of a chunked body.                                            *)

FiveAssociate(a, b, c, d, e) == (((a \o b) \o c) \o d) \o e = a \o (b \o (c \o (d \o e)))

\* Five texts, associated.
LEMMA FiveTexts ==
  ASSUME NEW a \in Text, NEW b \in Text, NEW c \in Text, NEW d \in Text, NEW e \in Text
  PROVE  FiveAssociate(a, b, c, d, e)
<1> DEFINE ab == a \o b
           abc == ab \o c
           de == d \o e
           cde == c \o de
<1>1. ab \in Text
  BY TextConcat
<1> HIDE DEF ab
<1>2. abc \in Text
  BY <1>1, TextConcat
<1> HIDE DEF abc
<1>3. de \in Text
  BY TextConcat
<1> HIDE DEF de
<1>4. cde \in Text
  BY <1>3, TextConcat
<1> HIDE DEF cde
<1>5. (abc \o d) \o e = abc \o de
  <2>1. TextsAssociate(abc, d, e)
    BY <1>2, TextAssociates
  <2> QED
    BY <2>1 DEF TextsAssociate, de
<1>6. abc \o de = ab \o cde
  <2>1. TextsAssociate(ab, c, de)
    BY <1>1, <1>3, TextAssociates
  <2> QED
    BY <2>1 DEF TextsAssociate, abc, cde
<1>7. ab \o cde = a \o (b \o cde)
  <2>1. TextsAssociate(a, b, cde)
    BY <1>4, TextAssociates
  <2> QED
    BY <2>1 DEF TextsAssociate, ab
<1>8. (abc \o d) \o e = a \o (b \o cde)
  BY <1>5, <1>6, <1>7
<1> QED
  BY <1>8, Zenon DEF ab, abc, cde, de, FiveAssociate

LineEnd(m) == IF m.broken THEN <<>> ELSE CRLF
Piece(m, i) == <<Digits[Len(m.chunks[i])]>> \o CRLF \o m.chunks[i] \o LineEnd(m)

\* F[k] is what the first k chunks deliver, and R[k] what is on the wire
\* behind them.
Layout(m, F, R) ==
  /\ \A k \in 1..Len(m.chunks) : m.chunks[k] \in Text /\ Len(m.chunks[k]) \in 1..3
  /\ F \in [0..Len(m.chunks) -> Text] /\ R \in [0..Len(m.chunks) -> Text]
  /\ F[0] = <<>> /\ F[Len(m.chunks)] = Body(m)
  /\ R[0] = Encode(m) /\ R[Len(m.chunks)] = Begins("0", CRLF, CRLF)
  /\ \A k \in 1..Len(m.chunks) : F[k] = F[k - 1] \o m.chunks[k]
  /\ \A k \in 1..Len(m.chunks) :
        R[k - 1] = Begins(Digits[Len(m.chunks[k])], CRLF, m.chunks[k] \o (LineEnd(m) \o R[k]))
  /\ \A k \in 0..Len(m.chunks) : IsPrefix(F[k], Body(m))

\* The chunks of a response are texts of one to three bytes.
LEMMA ChunksAreText ==
  ASSUME NEW m \in Responses
  PROVE  /\ Len(m.chunks) \in Nat /\ (Len(m.chunks) = 0 => m.chunks = <<>>)
         /\ \A k \in 1..Len(m.chunks) : m.chunks[k] \in Text /\ Len(m.chunks[k]) \in 1..3
<1>1. m.chunks \in Seq(Seq(STRING)) /\ \A k \in 1..Len(m.chunks) : Len(m.chunks[k]) \in 1..3
  BY ResponsesAssumption
<1>2. Len(m.chunks) \in Nat /\ (Len(m.chunks) = 0 => m.chunks = <<>>)
  BY <1>1, LenProperties, EmptySeq
<1>3. \A k \in 1..Len(m.chunks) : m.chunks[k] \in Seq(STRING)
  BY <1>1, <1>2, ElementOfSeq
<1> QED
  BY <1>1, <1>2, <1>3, StringsAreText

\* A digit is no carriage return.
LEMMA DigitText ==
  ASSUME NEW i \in 1..3
  PROVE  Digits[i] \in Char /\ Digits[i] # "r"
  BY DEF Digits, Char

\* What follows a chunk is text.
LEMMA LineEndText ==
  ASSUME NEW m
  PROVE  LineEnd(m) \in Text
  BY TextIs DEF LineEnd

\* What Encode() puts on the wire has the layout of a chunked body.
LEMMA LayoutExists ==
  ASSUME NEW m \in Responses, m.framing = "chunked"
  PROVE  \E F, R : Layout(m, F, R)
<1> DEFINE n == Len(m.chunks)
           pieces == [i \in 1..n |-> Piece(m, i)]
           last == Begins("0", CRLF, CRLF)
<1>1. /\ n \in Nat /\ (n = 0 => m.chunks = <<>>)
      /\ \A k \in 1..n : m.chunks[k] \in Text /\ Len(m.chunks[k]) \in 1..3
  BY ChunksAreText
<1>2. CRLF \in Text /\ <<"0">> \in Text /\ LineEnd(m) \in Text
  BY TextIs, LineEndText DEF Char
<1>3. last \in Text
  <2>1. CRLF \o CRLF \in Text
    BY <1>2, TextConcat
  <2> DEFINE z == <<"0">>
  <2>2. z \in Text
    BY <1>2
  <2> HIDE DEF z
  <2>3. z \o (CRLF \o CRLF) \in Text
    BY <2>1, <2>2, TextConcat
  <2> QED
    BY <2>3, Zenon DEF Begins, z
<1> HIDE DEF n, last
<1>4. \A k \in 1..n : <<Digits[Len(m.chunks[k])]>> \in Text /\ Piece(m, k) \in Text
  <2>1. TAKE k \in 1..n
  <2> DEFINE d == <<Digits[Len(m.chunks[k])]>>
  <2>2. d \in Text
    <3>1. Digits[Len(m.chunks[k])] \in Char
      BY <1>1, DigitText
    <3> QED
      BY <3>1, TextIs
  <2> HIDE DEF d
  <2>3. d \o CRLF \in Text
    BY <1>2, <2>2, TextConcat
  <2>4. (d \o CRLF) \o m.chunks[k] \in Text
    BY <1>1, <2>3, TextConcat
  <2>5. ((d \o CRLF) \o m.chunks[k]) \o LineEnd(m) \in Text
    BY <1>2, <2>4, TextConcat
  <2> QED
    BY <2>2, <2>5 DEF Piece, d
<1>5. Len(pieces) = n /\ \A k \in 1..n : pieces[k] = Piece(m, k)
  <2>1. \A k \in 1..n : pieces[k] = Piece(m, k)
    OBVIOUS
  <2>2. n \in Nat
    BY <1>1
  <2> QED
    BY <2>1, <2>2
<1>6. Len(pieces) = 0 => pieces = <<>>
  <2>1. \A k \in 1..n : Piece(m, k) \in Text
    BY <1>4
  <2>2. pieces \in Seq(Text)
    BY <1>1, <2>1
  <2> HIDE DEF pieces
  <2> QED
    BY <2>2, EmptySeq
<1>7. Encode(m) = FlattenSeq(pieces) \o <<"0">> \o CRLF \o CRLF
  BY DEF Encode, Piece, LineEnd, n
<1> HIDE DEF pieces
<1>8. PICK F, G : Fronts(F, G, m.chunks, n)
  BY <1>1, FlattenFronts DEF n
<1>9. PICK P, Q : Fronts(P, Q, pieces, n)
  <2>1. Len(pieces) \in Nat /\ \A k \in 1..Len(pieces) : pieces[k] \in Text
    BY <1>1, <1>4, <1>5
  <2> QED
    BY <1>5, <1>6, <2>1, FlattenFronts
<1> DEFINE R == [k \in 0..n |-> Q[k] \o last]
<1>10. R \in [0..n -> Text] /\ \A k \in 0..n : R[k] = Q[k] \o last /\ Q[k] \in Text
  <2>1. \A k \in 0..n : Q[k] \in Text /\ Q[k] \o last \in Text
    BY <1>3, <1>9, TextConcat DEF Fronts
  <2> QED
    BY <2>1
<1> HIDE DEF R
<1>11. R[n] = last
  <2>1. Q[n] = <<>> /\ n \in 0..n
    BY <1>1, <1>9 DEF Fronts
  <2> QED
    BY <1>3, <1>10, <2>1, TextIdentity
<1>12. R[0] = Encode(m)
  <2>1. 0 \in 0..n /\ P[0] = <<>> /\ P[0] \o Q[0] = FlattenSeq(pieces)
    <3>1. 0 \in 0..n
      BY <1>1
    <3> QED
      BY <1>9, <3>1, Zenon DEF Fronts
  <2>2. Q[0] = FlattenSeq(pieces) /\ Q[0] \in Text
    BY <1>10, <2>1, TextIdentity
  <2> DEFINE z == <<"0">>
             e == <<>>
             f == Q[0]
  <2>3. z \in Text /\ e \in Text /\ f \in Text
    BY <1>2, <2>2, TextIs
  <2>4. Encode(m) = ((f \o z) \o CRLF) \o CRLF
    BY <1>7, <2>2
  <2>5. last = z \o (CRLF \o CRLF)
    BY DEF last, Begins
  <2>6. R[0] = f \o last
    BY <1>10, <2>1
  <2> HIDE DEF z, e, f
  <2>7. (((f \o z) \o CRLF) \o CRLF) \o e = f \o (z \o (CRLF \o (CRLF \o e)))
    <3>1. FiveAssociate(f, z, CRLF, CRLF, e)
      BY <1>2, <2>3, FiveTexts
    <3> QED
      BY <3>1, Zenon DEF FiveAssociate
  <2>8. CRLF \o e = CRLF
    BY <1>2, TextIdentity DEF e
  <2>9. ((f \o z) \o CRLF) \o CRLF \in Text
    <3>1. f \o z \in Text
      BY <2>3, TextConcat
    <3>2. (f \o z) \o CRLF \in Text
      BY <1>2, <3>1, TextConcat
    <3> QED
      BY <1>2, <3>2, TextConcat
  <2>10. (((f \o z) \o CRLF) \o CRLF) \o e = ((f \o z) \o CRLF) \o CRLF
    BY <2>9, TextIdentity DEF e
  <2> QED
    BY <2>4, <2>5, <2>6, <2>7, <2>8, <2>10
<1>13. \A k \in 1..n : R[k - 1] = Begins(Digits[Len(m.chunks[k])], CRLF, m.chunks[k] \o (LineEnd(m) \o R[k]))
  <2>1. TAKE k \in 1..n
  <2> DEFINE d == <<Digits[Len(m.chunks[k])]>>
             c == m.chunks[k]
             t == LineEnd(m)
             q == Q[k]
             p == Piece(m, k)
  <2>2. k \in 0..n /\ k - 1 \in 0..n
    BY <1>1
  <2>3. d \in Text /\ c \in Text /\ t \in Text /\ q \in Text /\ p \in Text
    BY <1>1, <1>2, <1>4, <1>10, <2>2
  <2>4. R[k - 1] = Q[k - 1] \o last /\ Q[k - 1] = p \o q /\ R[k] = q \o last
    BY <1>5, <1>9, <1>10, <2>2 DEF Fronts
  <2>5. p = ((d \o CRLF) \o c) \o t
    BY DEF Piece
  <2> DEFINE r == R[k]
  <2>6. Begins(Digits[Len(m.chunks[k])], CRLF, m.chunks[k] \o (LineEnd(m) \o R[k])) = d \o (CRLF \o (c \o (t \o r)))
    BY DEF Begins
  <2>7. r \in Text
    BY <1>10, <2>2
  <2> HIDE DEF d, c, t, q, p, r
  <2>8. (p \o q) \o last = p \o r
    <3>1. TextsAssociate(p, q, last)
      BY <1>3, <2>3, TextAssociates
    <3> QED
      BY <2>4, <3>1 DEF TextsAssociate, r
  <2>9. (((d \o CRLF) \o c) \o t) \o r = d \o (CRLF \o (c \o (t \o r)))
    <3>1. FiveAssociate(d, CRLF, c, t, r)
      BY <1>2, <2>3, <2>7, FiveTexts
    <3> QED
      BY <3>1, Zenon DEF FiveAssociate
  <2> QED
    BY <2>4, <2>5, <2>6, <2>8, <2>9
<1>14. \A k \in 0..n : IsPrefix(F[k], Body(m))
  <2>1. TAKE k \in 0..n
  <2>2. F[k] \in Text /\ G[k] \in Text /\ F[k] \o G[k] = Body(m)
    BY <1>8 DEF Fronts, Body
  <2> QED
    BY <2>2, IsFront
<1>15. F[n] = Body(m)
  <2>1. n \in 0..n /\ F[n] \in Text /\ G[n] = <<>> /\ F[n] \o G[n] = Body(m)
    <3>1. n \in 0..n
      BY <1>1
    <3>2. F[n] \in Text
      BY <1>8, <3>1 DEF Fronts
    <3> QED
      BY <1>8, <3>1, <3>2, Zenon DEF Fronts, Body
  <2> QED
    BY <2>1, TextIdentity
<1>16. F \in [0..n -> Text] /\ F[0] = <<>> /\ \A k \in 1..n : F[k] = F[k - 1] \o m.chunks[k]
  BY <1>8 DEF Fronts
<1>17. Layout(m, F, R)
  BY <1>1, <1>10, <1>11, <1>12, <1>13, <1>14, <1>15, <1>16 DEF Layout, n, last
<1> QED
  BY <1>17

-----------------------------------------------------------------------------
(* The reader of a chunked body.                                            *)

ReaderType ==
  [stage : {"body", "starved", "finished", "failed"}, out : Text, left : Nat,
   buffer : Text, size : Nat \cup {NoSize}]

\* Before the line of a chunk's size, or before the chunk itself.
BeforeSize(c, w, m, F, R, k) ==
  /\ c.out = F[k] /\ c.size = NoSize
  /\ c.buffer \o w = R[k]

BeforeChunk(c, w, m, F, R, k) ==
  /\ k < Len(m.chunks)
  /\ c.out = F[k] /\ c.size = Len(m.chunks[k + 1])
  /\ c.buffer \o w = m.chunks[k + 1] \o (LineEnd(m) \o R[k + 1])

Midway(c, w, m, F, R) ==
  \E k \in 0..Len(m.chunks) : BeforeSize(c, w, m, F, R, k) \/ BeforeChunk(c, w, m, F, R, k)

\* The reader c, with w yet to come, has delivered the front of the body.
InOrder(c, w, m, F, R) ==
  /\ c \in ReaderType
  /\ c.stage \in {"body", "starved"} => Midway(c, w, m, F, R)
  /\ c.stage = "finished" => c.out = Body(m)
  /\ IsPrefix(c.out, Body(m))

\* SizeLine() with the digit looked up by DigitOf().
LEMMA SizeLineIs ==
  ASSUME NEW c
  PROVE  SizeLine(c) =
           LET end == IndexOf(c.buffer, CRLF)
               size == DigitOf(c.buffer[1])
               rest == Drop(c.buffer, end + 1)
           IN  IF end = 0 THEN [c EXCEPT !.stage = "starved"]
               ELSE IF end = 1 \/ (size = 0 /\ c.buffer[1] # "0") THEN [c EXCEPT !.stage = "failed"]
               ELSE IF size = 0 THEN [c EXCEPT !.buffer = rest, !.stage = "finished"]
               ELSE [c EXCEPT !.buffer = rest, !.size = size]
  BY Zenon DEF SizeLine, DigitOf

\* A line that is there: its first byte, and what is behind its CRLF.
Lined(q, w, x, more) ==
  /\ q[1] = x
  /\ Drop(q, 3) \in Text /\ Len(Drop(q, 3)) = Len(q) - 3
  /\ Drop(q, 3) \o w = more

\* A line of one byte and CRLF is cut off once it is all there.
LEMMA LineTaken ==
  ASSUME NEW q \in Text, NEW w \in Text, NEW x \in Char, x # "r", NEW more \in Text,
         q \o w = Begins(x, CRLF, more), ~(Len(q) < 3)
  PROVE  Lined(q, w, x, more)
<1> DEFINE l == <<x>>
           a == l \o CRLF
<1>1. l \in Text /\ Len(l) = 1 /\ l[1] = x /\ CRLF \in Text /\ Len(CRLF) = 2
  BY TextIs
<1>2. Begins(x, CRLF, more) = l \o (CRLF \o more)
  BY DEF Begins
<1> HIDE DEF l
<1>3. a \in Text /\ Len(a) = 3 /\ a[1] = x
  <2>1. /\ a \in Text /\ Len(a) = Len(l) + Len(CRLF)
        /\ \A i \in 1..Len(l) + Len(CRLF) : a[i] = IF i <= Len(l) THEN l[i] ELSE CRLF[i - Len(l)]
    BY <1>1, TextConcat
  <2> HIDE DEF a
  <2>2. 1 \in 1..Len(l) + Len(CRLF) /\ 1 <= Len(l)
    BY <1>1
  <2> QED
    BY <1>1, <2>1, <2>2
<1>4. q \o w = a \o more
  <2>1. TextsAssociate(l, CRLF, more)
    BY <1>1, TextAssociates
  <2> QED
    BY <1>2, <2>1 DEF TextsAssociate
<1> HIDE DEF a
<1>5. Len(q) \in Nat /\ Len(w) \in Nat /\ Len(more) \in Nat
  BY LenProperties DEF Text
<1>6. Parted(q, w, a, more)
  <2>1. Len(a) <= Len(q)
    BY <1>3, <1>5
  <2> QED
    BY <1>3, <1>4, <2>1, Parts, Zenon
<1>7. SubSeq(q, 1, 3) = a /\ Drop(q, 3) \in Text /\ Len(Drop(q, 3)) = Len(q) - 3 /\ Drop(q, 3) \o w = more
  BY <1>3, <1>6 DEF Parted
<1>8. q[1] = SubSeq(q, 1, 3)[1]
  <2>1. 3 \in 0..Len(q)
    BY <1>5
  <2> QED
    BY <2>1, CutText
<1> QED
  BY <1>3, <1>7, <1>8 DEF Lined

\* The size line of a chunk gives back its length.
LEMMA DigitOfIs ==
  /\ DigitOf("0") = 0
  /\ \A i \in 1..3 : DigitOf(Digits[i]) = i
<1>1. ASSUME NEW x
      PROVE  /\ \A i \in 1..3 : x = Digits[i] => DigitOf(x) = i
             /\ x = "0" => DigitOf(x) = 0
  BY DigitIs
<1>2. DigitOf("0") = 0
  BY <1>1
<1>3. ASSUME NEW i \in 1..3 PROVE DigitOf(Digits[i]) = i
  BY <1>1
<1> QED
  BY <1>2, <1>3

\* Between chunks comes the line of the next size, or of the final zero.
LEMMA LineOf ==
  ASSUME NEW m, NEW F, NEW R, Layout(m, F, R), Len(m.chunks) \in Nat, NEW k \in 0..Len(m.chunks)
  PROVE  \E x \in Char, more \in Text :
           /\ x # "r" /\ R[k] = Begins(x, CRLF, more)
           /\ k = Len(m.chunks) => x = "0"
           /\ k < Len(m.chunks) => /\ x = Digits[Len(m.chunks[k + 1])]
                                   /\ more = m.chunks[k + 1] \o (LineEnd(m) \o R[k + 1])
<1> DEFINE n == Len(m.chunks)
<1>1. CASE k = n
  <2>1. R[k] = Begins("0", CRLF, CRLF) /\ "0" \in Char /\ CRLF \in Text
    BY <1>1, TextIs DEF Layout, Char
  <2>2. "0" # "r" /\ ~(k < Len(m.chunks))
    BY <1>1
  <2> QED
    BY <2>1, <2>2, Zenon
<1>2. CASE k # n
  <2>1. k + 1 \in 1..n /\ k + 1 \in 0..n /\ (k + 1) - 1 = k
    BY <1>2
  <2> DEFINE x == Digits[Len(m.chunks[k + 1])]
             more == m.chunks[k + 1] \o (LineEnd(m) \o R[k + 1])
  <2>2. m.chunks[k + 1] \in Text /\ Len(m.chunks[k + 1]) \in 1..3 /\ R[k + 1] \in Text
    BY <2>1 DEF Layout
  <2>3. x \in Char /\ x # "r"
    BY <2>2, DigitText
  <2>4. LineEnd(m) \o R[k + 1] \in Text
    BY <2>2, LineEndText, TextConcat
  <2>5. more \in Text
    BY <2>2, <2>4, TextConcat
  <2>6. R[(k + 1) - 1] = Begins(x, CRLF, more)
    BY <2>1 DEF Layout
  <2>7. R[k] = Begins(x, CRLF, more)
    BY <2>1, <2>6
  <2> HIDE DEF x, more
  <2>8. /\ x # "r" /\ R[k] = Begins(x, CRLF, more) /\ x \in Char /\ more \in Text
        /\ x = Digits[Len(m.chunks[k + 1])] /\ more = m.chunks[k + 1] \o (LineEnd(m) \o R[k + 1])
    BY <2>3, <2>5, <2>7 DEF x, more
  <2> QED
    BY <1>2, <2>8
<1> QED
  BY <1>1, <1>2

\* That line does not begin with a carriage return.
LEMMA LineStarts ==
  ASSUME NEW m, NEW F, NEW R, Layout(m, F, R), Len(m.chunks) \in Nat, NEW k \in 0..Len(m.chunks)
  PROVE  \E x \in Char, more \in Text : x # "r" /\ R[k] = Begins(x, CRLF, more)
<1>1. PICK x \in Char, more \in Text :
           /\ x # "r" /\ R[k] = Begins(x, CRLF, more)
           /\ k = Len(m.chunks) => x = "0"
           /\ k < Len(m.chunks) => /\ x = Digits[Len(m.chunks[k + 1])]
                                   /\ more = m.chunks[k + 1] \o (LineEnd(m) \o R[k + 1])
  BY LineOf
<1> QED
  BY <1>1, Zenon

\* What begins with a byte has it first.
LEMMA BeginsWith ==
  ASSUME NEW x \in Char, NEW more \in Text
  PROVE  Begins(x, CRLF, more)[1] = x /\ Len(Begins(x, CRLF, more)) \in Nat \ {0}
<1> DEFINE l == <<x>>
           t == CRLF \o more
<1>1. l \in Text /\ Len(l) = 1 /\ l[1] = x /\ CRLF \in Text
  BY TextIs
<1>2. t \in Text
  BY <1>1, TextConcat
<1>3. Begins(x, CRLF, more) = l \o t
  BY DEF Begins
<1> HIDE DEF l, t
<1>4. /\ Len(l \o t) = Len(l) + Len(t) /\ Len(t) \in Nat
      /\ \A i \in 1..Len(l) + Len(t) : (l \o t)[i] = IF i <= Len(l) THEN l[i] ELSE t[i - Len(l)]
  BY <1>1, <1>2, TextConcat
<1>5. 1 \in 1..Len(l) + Len(t) /\ 1 <= Len(l)
  BY <1>1, <1>4
<1> QED
  BY <1>1, <1>3, <1>4, <1>5

\* The round at a size line keeps the order, and uses up the line.
LEMMA SizeLineKeeps ==
  ASSUME NEW m, NEW F, NEW R, Layout(m, F, R), Len(m.chunks) \in Nat, NoSize \notin Nat,
         NEW w \in Text, NEW c, InOrder(c, w, m, F, R), c.stage = "body", c.size = NoSize
  PROVE  /\ InOrder(SizeLine(c), w, m, F, R)
         /\ SizeLine(c).stage = "body" => Len(SizeLine(c).buffer) < Len(c.buffer)
<1> DEFINE n == Len(m.chunks)
<1>1. /\ c \in ReaderType /\ c.buffer \in Text /\ IsPrefix(c.out, Body(m))
      /\ Len(c.buffer) \in Nat
  BY LenProperties DEF InOrder, ReaderType, Text
<1>2. PICK k \in 0..n : BeforeSize(c, w, m, F, R, k)
  <2>1. Midway(c, w, m, F, R)
    BY DEF InOrder
  <2>2. PICK k \in 0..n : BeforeSize(c, w, m, F, R, k) \/ BeforeChunk(c, w, m, F, R, k)
    BY <2>1 DEF Midway
  <2>3. ~BeforeChunk(c, w, m, F, R, k)
    <3>1. SUFFICES ASSUME BeforeChunk(c, w, m, F, R, k) PROVE FALSE
      OBVIOUS
    <3>2. k + 1 \in 1..n /\ c.size = Len(m.chunks[k + 1])
      BY <3>1 DEF BeforeChunk
    <3>3. Len(m.chunks[k + 1]) \in Nat
      BY <3>2 DEF Layout
    <3> QED
      BY <3>2, <3>3
  <2> QED
    BY <2>2, <2>3
<1>3. PICK x \in Char, more \in Text :
           /\ x # "r" /\ R[k] = Begins(x, CRLF, more)
           /\ k = n => x = "0"
           /\ k < n => /\ x = Digits[Len(m.chunks[k + 1])]
                       /\ more = m.chunks[k + 1] \o (LineEnd(m) \o R[k + 1])
  BY LineOf
<1>4. c.out = F[k] /\ c.buffer \o w = Begins(x, CRLF, more)
  BY <1>2, <1>3 DEF BeforeSize
<1> DEFINE end == IndexOf(c.buffer, CRLF)
           size == DigitOf(c.buffer[1])
           rest == Drop(c.buffer, end + 1)
<1>5. end = IF Len(c.buffer) < 3 THEN 0 ELSE 2
  <2>1. CRLF \in Text /\ Len(CRLF) = 2 /\ CRLF[1] = "r"
    BY TextIs
  <2>2. Len(CRLF) # 0 /\ x # CRLF[1]
    BY <1>3, <2>1
  <2>3. end = IF Len(c.buffer) < Len(CRLF) + 1 THEN 0 ELSE 2
    BY <1>1, <1>4, <2>1, <2>2, FoundAtTwo
  <2> HIDE DEF end
  <2> QED
    BY <1>1, <2>1, <2>3
<1>6. SizeLine(c) = IF end = 0 THEN [c EXCEPT !.stage = "starved"]
                    ELSE IF end = 1 \/ (size = 0 /\ c.buffer[1] # "0") THEN [c EXCEPT !.stage = "failed"]
                    ELSE IF size = 0 THEN [c EXCEPT !.buffer = rest, !.stage = "finished"]
                    ELSE [c EXCEPT !.buffer = rest, !.size = size]
  BY SizeLineIs, Zenon
<1> HIDE DEF end, size, rest
<1>7. CASE Len(c.buffer) < 3
  <2> DEFINE d == [c EXCEPT !.stage = "starved"]
  <2>1. SizeLine(c) = d
    BY <1>5, <1>6, <1>7
  <2>2. /\ d \in ReaderType /\ d.stage = "starved" /\ d.out = c.out /\ d.size = c.size
        /\ d.buffer = c.buffer
    BY <1>1 DEF ReaderType
  <2> HIDE DEF d
  <2>3. BeforeSize(d, w, m, F, R, k)
    BY <1>2, <2>2 DEF BeforeSize
  <2>4. InOrder(d, w, m, F, R)
    BY <1>1, <2>2, <2>3 DEF InOrder, Midway
  <2> QED
    BY <2>1, <2>2, <2>4
<1>8. CASE ~(Len(c.buffer) < 3)
  <2>1. end = 2
    BY <1>1, <1>5, <1>8
  <2>2. rest = Drop(c.buffer, 3)
    BY <2>1 DEF rest
  <2>3. c.buffer[1] = x /\ rest \in Text /\ Len(rest) = Len(c.buffer) - 3 /\ rest \o w = more
    <3>1. Lined(c.buffer, w, x, more)
      BY <1>1, <1>3, <1>4, <1>8, LineTaken
    <3> QED
      BY <2>2, <3>1 DEF Lined
  <2>4. size = DigitOf(x)
    BY <2>3 DEF size
  <2>5. CASE k = n
    <3>1. size = 0
      BY <1>3, <2>4, <2>5, DigitOfIs
    <3> DEFINE d == [c EXCEPT !.buffer = rest, !.stage = "finished"]
    <3>2. SizeLine(c) = d
      BY <1>3, <1>6, <2>1, <2>3, <2>5, <3>1
    <3>3. d \in ReaderType /\ d.stage = "finished" /\ d.out = c.out
      BY <1>1, <2>3 DEF ReaderType
    <3> HIDE DEF d
    <3>4. c.out = Body(m)
      BY <1>4, <2>5 DEF Layout
    <3>5. InOrder(d, w, m, F, R)
      BY <1>1, <3>3, <3>4 DEF InOrder
    <3> QED
      BY <3>2, <3>3, <3>5
  <2>6. CASE k # n
    <3>1. k < n /\ k + 1 \in 1..n
      BY <2>6
    <3> DEFINE j == Len(m.chunks[k + 1])
    <3>2. j \in 1..3
      BY <3>1 DEF Layout
    <3>3. size = j
      BY <1>3, <2>4, <3>1, <3>2, DigitOfIs
    <3> HIDE DEF j
    <3> DEFINE d == [c EXCEPT !.buffer = rest, !.size = size]
    <3>4. SizeLine(c) = d
      <4>1. size # 0
        BY <3>2, <3>3
      <4> QED
        BY <1>6, <2>1, <4>1
    <3>5. /\ d \in ReaderType /\ d.stage = "body" /\ d.out = c.out /\ d.size = j
          /\ d.buffer = rest
      <4>1. size \in Nat \cup {NoSize}
        BY <3>2, <3>3
      <4> QED
        BY <1>1, <2>3, <3>3, <4>1 DEF ReaderType
    <3> HIDE DEF d
    <3>6. BeforeChunk(d, w, m, F, R, k)
      BY <1>3, <1>4, <2>3, <3>1, <3>5 DEF BeforeChunk, j
    <3>7. InOrder(d, w, m, F, R)
      BY <1>1, <3>5, <3>6 DEF InOrder, Midway
    <3> QED
      BY <1>1, <2>3, <3>4, <3>5, <3>7
  <2> QED
    BY <2>5, <2>6
<1> QED
  BY <1>7, <1>8

\* The round at a chunk passes on that chunk and no more, and only once its
\* CRLF is there.
LEMMA ChunkKeeps ==
  ASSUME NEW m, NEW F, NEW R, Layout(m, F, R), Len(m.chunks) \in Nat, NoSize \notin Nat,
         NEW w \in Text, NEW c, InOrder(c, w, m, F, R), c.stage = "body", c.size # NoSize
  PROVE  /\ InOrder(Chunk(c), w, m, F, R)
         /\ Chunk(c).stage = "body" => Len(Chunk(c).buffer) < Len(c.buffer)
<1> DEFINE n == Len(m.chunks)
<1>1. /\ c \in ReaderType /\ c.buffer \in Text /\ c.out \in Text /\ IsPrefix(c.out, Body(m))
      /\ Len(c.buffer) \in Nat /\ Len(w) \in Nat
  BY LenProperties DEF InOrder, ReaderType, Text
<1>2. PICK k \in 0..n : BeforeChunk(c, w, m, F, R, k)
  <2>1. Midway(c, w, m, F, R)
    BY DEF InOrder
  <2> QED
    BY <2>1 DEF Midway, BeforeSize
<1> DEFINE chunk == m.chunks[k + 1]
           r == R[k + 1]
           t == LineEnd(m)
           z == Len(chunk)
<1>3. /\ k + 1 \in 1..n /\ k + 1 \in 0..n /\ (k + 1) - 1 = k
      /\ c.out = F[k] /\ c.size = z /\ c.buffer \o w = chunk \o (t \o r)
  BY <1>2 DEF BeforeChunk
<1>4. chunk \in Text /\ z \in 1..3 /\ r \in Text /\ F[k + 1] = F[k] \o chunk
      /\ IsPrefix(F[k + 1], Body(m)) /\ F[k + 1] \in Text
  BY <1>3 DEF Layout
<1>5. t \in Text /\ t \o r \in Text
  BY <1>4, LineEndText, TextConcat
<1> HIDE DEF chunk, r, z
<1> DEFINE cut == c.size + 2
<1>a. c.size = z
  BY <1>3
<1>b. chunk \in Text /\ z \in 1..3
  BY <1>4
<1>6. cut = z + 2 /\ cut \in Nat /\ z \in Nat \ {0} /\ Len(chunk) = z /\ chunk \in Text
  <2>1. Len(chunk) = z
    BY Zenon DEF z
  <2> QED
    BY <1>a, <1>b, <2>1
<1> DEFINE starved == [c EXCEPT !.stage = "starved"]
           failed == [c EXCEPT !.stage = "failed"]
           passed == [c EXCEPT !.out = @ \o SubSeq(c.buffer, 1, c.size),
                               !.buffer = Drop(c.buffer, cut), !.size = NoSize]
<1>7. Chunk(c) = IF Len(c.buffer) < cut THEN starved
                 ELSE IF SubSeq(c.buffer, c.size + 1, cut) # CRLF THEN failed ELSE passed
  BY Zenon DEF Chunk
<1> HIDE DEF cut, starved, failed, passed
<1>8. CASE Len(c.buffer) < cut
  <2>1. /\ starved \in ReaderType /\ starved.stage = "starved" /\ starved.out = c.out
        /\ starved.size = c.size /\ starved.buffer = c.buffer
    BY <1>1 DEF ReaderType, starved
  <2>2. BeforeChunk(starved, w, m, F, R, k)
    BY <1>2, <2>1 DEF BeforeChunk
  <2>3. InOrder(starved, w, m, F, R)
    BY <1>1, <2>1, <2>2 DEF InOrder, Midway
  <2> QED
    BY <1>7, <1>8, <2>1, <2>3
<1>9. CASE ~(Len(c.buffer) < cut) /\ SubSeq(c.buffer, c.size + 1, cut) # CRLF
  <2>1. failed \in ReaderType /\ failed.stage = "failed" /\ failed.out = c.out
    BY <1>1 DEF ReaderType, failed
  <2>2. InOrder(failed, w, m, F, R)
    BY <1>1, <2>1 DEF InOrder
  <2> QED
    BY <1>7, <1>9, <2>1, <2>2
<1>10. CASE ~(Len(c.buffer) < cut) /\ SubSeq(c.buffer, c.size + 1, cut) = CRLF
  <2>0. z <= Len(c.buffer) /\ z + 2 <= Len(c.buffer)
    BY <1>1, <1>6, <1>10
  <2>1. SubSeq(c.buffer, 1, z) = chunk
    <3>1. Parted(c.buffer, w, chunk, t \o r)
      BY <1>1, <1>3, <1>4, <1>5, <1>6, <2>0, Parts
    <3> QED
      BY <1>6, <3>1 DEF Parted
  <2>2. ~m.broken
    <3>1. SUFFICES ASSUME m.broken PROVE FALSE
      OBVIOUS
    <3>2. t \o r = r
      BY <1>4, <3>1, TextIdentity DEF LineEnd
    <3>3. (c.buffer \o w)[z + 1] = c.buffer[z + 1]
      <4>1. z + 1 \in 1..Len(c.buffer) + Len(w) /\ z + 1 <= Len(c.buffer)
        BY <1>1, <1>6, <2>0
      <4> QED
        BY <1>1, <4>1, TextConcat
    <3>4. PICK x \in Char, more \in Text : x # "r" /\ r = Begins(x, CRLF, more)
      <4>1. k + 1 \in 0..n
        BY <1>3
      <4> DEFINE j == k + 1
      <4>2. j \in 0..n /\ r = R[j]
        BY <4>1 DEF r
      <4> HIDE DEF j, r
      <4>3. \E x \in Char, more \in Text : x # "r" /\ R[j] = Begins(x, CRLF, more)
        BY <4>2, LineStarts
      <4> QED
        BY <4>2, <4>3, Zenon
    <3>5. r[1] = x /\ Len(r) \in Nat \ {0}
      BY <3>4, BeginsWith
    <3>6. (chunk \o r)[z + 1] = r[1]
      <4>1. z + 1 \in 1..Len(chunk) + Len(r) /\ ~(z + 1 <= Len(chunk)) /\ (z + 1) - Len(chunk) = 1
        BY <1>6, <3>5
      <4>2. r \in Text
        BY <1>4
      <4> HIDE DEF r
      <4> QED
        <5>1. \A i \in 1..Len(chunk) + Len(r) :
                (chunk \o r)[i] = IF i <= Len(chunk) THEN chunk[i] ELSE r[i - Len(chunk)]
          BY <1>b, <4>2, TextConcat, Zenon
        <5>2. (chunk \o r)[z + 1] = r[(z + 1) - Len(chunk)]
          BY <4>1, <5>1
        <5> QED
          BY <4>1, <5>2
    <3>7. c.buffer[z + 1] = x
      BY <1>3, <3>2, <3>3, <3>5, <3>6
    <3>8. SubSeq(c.buffer, z + 1, z + 2)[1] = c.buffer[z + 1]
      <4>1. \A i \in z + 1 .. z + 2 : c.buffer[i] \in Char
        BY <1>1, <1>6, <2>0, ElementOfSeq DEF Text
      <4>2. \A i \in 1 .. z + 2 - (z + 1) + 1 : SubSeq(c.buffer, z + 1, z + 2)[i] = c.buffer[z + 1 + i - 1]
        BY <1>6, <4>1, SubSeqProperties
      <4>3. 1 \in 1 .. z + 2 - (z + 1) + 1 /\ z + 1 + 1 - 1 = z + 1
        BY <1>6
      <4> QED
        BY <4>2, <4>3
    <3>9. SubSeq(c.buffer, z + 1, z + 2) = CRLF
      BY <1>3, <1>6, <1>10
    <3> QED
      BY <3>4, <3>7, <3>8, <3>9, TextIs
  <2> DEFINE a == chunk \o CRLF
             rest == Drop(c.buffer, cut)
  <2>3. a \in Text /\ Len(a) = z + 2
    <3>1. CRLF \in Text /\ Len(CRLF) = 2
      BY TextIs
    <3>2. a \in Text /\ Len(a) = Len(chunk) + Len(CRLF)
      BY <1>b, <3>1, TextConcat
    <3> QED
      BY <1>6, <3>1, <3>2
  <2>4. c.buffer \o w = a \o r
    <3>1. t = CRLF
      BY <2>2 DEF LineEnd
    <3>2. TextsAssociate(chunk, CRLF, r)
      BY <1>4, TextIs, TextAssociates
    <3> QED
      BY <1>3, <3>1, <3>2 DEF TextsAssociate
  <2>5. rest \in Text /\ Len(rest) = Len(c.buffer) - cut /\ rest \o w = r
    <3> HIDE DEF a
    <3>1. Parted(c.buffer, w, a, r)
      BY <1>1, <1>4, <2>0, <2>3, <2>4, Parts
    <3> QED
      BY <1>6, <2>3, <3>1 DEF Parted
  <2> HIDE DEF rest
  <2>6. /\ passed.out = F[k + 1] /\ passed.buffer = rest /\ passed.size = NoSize
        /\ passed.stage = "body" /\ passed \in ReaderType
    <3>1. passed = [c EXCEPT !.out = F[k + 1], !.buffer = rest, !.size = NoSize]
      BY <1>3, <1>4, <2>1 DEF passed, rest
    <3> QED
      BY <1>1, <1>4, <2>5, <3>1 DEF ReaderType
  <2>7. BeforeSize(passed, w, m, F, R, k + 1)
    BY <2>5, <2>6 DEF BeforeSize, r
  <2>8. InOrder(passed, w, m, F, R)
    BY <1>3, <1>4, <2>6, <2>7 DEF InOrder, Midway
  <2>9. Len(passed.buffer) < Len(c.buffer)
    BY <1>1, <1>6, <2>5, <2>6
  <2> QED
    BY <1>7, <1>10, <2>8, <2>9
<1> QED
  BY <1>8, <1>9, <1>10

\* The rounds of the loop, unfolded.
Round(d) == IF d.stage # "body" THEN d ELSE IF d.size = NoSize THEN SizeLine(d) ELSE Chunk(d)

AreRounds(f, c, last) ==
  /\ f = [i \in 0..last |-> f[i]]
  /\ \A i \in 0..last : f[i] = IF i = 0 THEN c ELSE Round(f[i - 1])

\* The recursive function that counts the rounds exists.
LEMMA RoundsExist ==
  ASSUME NEW c, NEW N \in Nat
  PROVE  \E f : AreRounds(f, c, N)
<1> DEFINE T == {i \in Nat : ~ \E f : AreRounds(f, c, i)}
<1>1. SUFFICES ASSUME ~ \E f : AreRounds(f, c, N) PROVE FALSE
  OBVIOUS
<1>2. PICK m \in T : \A k \in T : m <= k
  <2>1. T \subseteq Nat /\ T # {}
    BY <1>1
  <2> HIDE DEF T
  <2> QED
    BY <2>1, LeastNumber
<1>3. m # 0
  <2>1. SUFFICES ASSUME m = 0 PROVE FALSE
    OBVIOUS
  <2> DEFINE g == [i \in 0..0 |-> c]
  <2>2. g = [i \in 0..0 |-> g[i]] /\ \A i \in 0..0 : g[i] = IF i = 0 THEN c ELSE Round(g[i - 1])
    OBVIOUS
  <2> HIDE DEF g
  <2>3. AreRounds(g, c, 0)
    BY <2>2 DEF AreRounds
  <2> QED
    BY <1>2, <2>1, <2>3
<1>4. m - 1 \in Nat /\ m - 1 \notin T
  BY <1>2, <1>3
<1>5. PICK f : AreRounds(f, c, m - 1)
  BY <1>4
<1> DEFINE g == [i \in 0..m |-> IF i = m THEN Round(f[m - 1]) ELSE f[i]]
<1>6. \A i \in 0..m : g[i] = IF i = 0 THEN c ELSE Round(g[i - 1])
  <2>1. TAKE i \in 0..m
  <2>2. CASE i = m
    <3>1. g[i] = Round(f[m - 1]) /\ g[i - 1] = f[m - 1]
      BY <1>3, <1>4, <2>2
    <3> QED
      BY <1>3, <2>2, <3>1
  <2>3. CASE i # m
    <3>1. g[i] = f[i] /\ i \in 0..(m - 1)
      BY <1>4, <2>3
    <3>2. i # 0 => g[i - 1] = f[i - 1]
      BY <2>3
    <3>3. f[i] = IF i = 0 THEN c ELSE Round(f[i - 1])
      BY <1>5, <3>1 DEF AreRounds
    <3> QED
      BY <3>1, <3>2, <3>3
  <2> QED
    BY <2>2, <2>3
<1>7. g = [i \in 0..m |-> g[i]]
  OBVIOUS
<1> HIDE DEF g
<1>8. AreRounds(g, c, m)
  BY <1>6, <1>7 DEF AreRounds
<1> QED
  BY <1>2, <1>8

Fed(full, c, bytes) == full = [c EXCEPT !.buffer = @ \o bytes]

RoundAt(f, c, i) == IF i = 0 THEN c ELSE Round(f[i - 1])

\* Chunked() leaves what the last round leaves.
LEMMA ChunkedIs ==
  ASSUME NEW c, NEW bytes, NEW full, Fed(full, c, bytes),
         NEW N, N = Len(full.buffer) + 1, N \in Nat
  PROVE  \E f : /\ AreRounds(f, full, N)
                /\ Chunked(c, bytes) = IF f[N].stage = "starved" THEN [f[N] EXCEPT !.stage = "body"] ELSE f[N]
<1>0. full = [c EXCEPT !.buffer = @ \o bytes]
  BY DEF Fed
<1> DEFINE Def(f) == f = [i \in 0..N |-> RoundAt(f, full, i)]
<1>1. \E f : Def(f)
  <2>1. PICK f : AreRounds(f, full, N)
    BY RoundsExist
  <2>2. \A i \in 0..N : f[i] = RoundAt(f, full, i)
    BY <2>1 DEF AreRounds, RoundAt
  <2>3. f = [i \in 0..N |-> f[i]]
    BY <2>1 DEF AreRounds
  <2>4. f = [i \in 0..N |-> RoundAt(f, full, i)]
    BY <2>2, <2>3
  <2> QED
    BY <2>4
<1> DEFINE h == CHOOSE f : Def(f)
<1>2. Def(h)
  BY <1>1
<1>3. Chunked(c, bytes) = IF h[N].stage = "starved" THEN [h[N] EXCEPT !.stage = "body"] ELSE h[N]
  BY <1>0 DEF Chunked, RoundAt, Round
<1> HIDE DEF h
<1>4. AreRounds(h, full, N)
  <2>1. h = [i \in 0..N |-> RoundAt(h, full, i)]
    BY <1>2
  <2>2. \A i \in 0..N : h[i] = RoundAt(h, full, i)
    BY <2>1
  <2>3. h = [i \in 0..N |-> h[i]]
    BY <2>1
  <2> QED
    BY <2>2, <2>3 DEF AreRounds, RoundAt
<1> QED
  BY <1>3, <1>4

\* A round keeps the order and, unless it is the last, uses up some bytes.
LEMMA RoundKeeps ==
  ASSUME NEW m, NEW F, NEW R, Layout(m, F, R), Len(m.chunks) \in Nat, NoSize \notin Nat,
         NEW w \in Text, NEW c, InOrder(c, w, m, F, R)
  PROVE  /\ InOrder(Round(c), w, m, F, R)
         /\ Round(c).stage = "body" => c.stage = "body" /\ Len(Round(c).buffer) < Len(c.buffer)
<1>1. CASE c.stage # "body"
  BY <1>1, Zenon DEF Round
<1>2. CASE c.stage = "body" /\ c.size = NoSize
  <2>1. Round(c) = SizeLine(c)
    BY <1>2, Zenon DEF Round
  <2> QED
    BY <1>2, <2>1, SizeLineKeeps
<1>3. CASE c.stage = "body" /\ c.size # NoSize
  <2>1. Round(c) = Chunk(c)
    BY <1>3, Zenon DEF Round
  <2> QED
    BY <1>3, <2>1, ChunkKeeps
<1> QED
  BY <1>1, <1>2, <1>3

\* The buffer of a reader has a length, and the reader a stage.
LEMMA BufferLength ==
  ASSUME NEW c, NEW w, NEW m, NEW F, NEW R, InOrder(c, w, m, F, R)
  PROVE  Len(c.buffer) \in Nat /\ c.stage \in {"body", "starved", "finished", "failed"}
  BY LenProperties DEF InOrder, ReaderType, Text

\* The loop over the buffer ends, and in order.
LEMMA LoopKeeps ==
  ASSUME NEW m, NEW F, NEW R, Layout(m, F, R), Len(m.chunks) \in Nat, NoSize \notin Nat,
         NEW w \in Text, NEW c, InOrder(c, w, m, F, R),
         NEW N, N = Len(c.buffer) + 1, NEW f, AreRounds(f, c, N)
  PROVE  InOrder(f[N], w, m, F, R) /\ f[N].stage # "body"
<1>1. Len(c.buffer) \in Nat
  BY BufferLength
<1> DEFINE Fine(i) == /\ InOrder(f[i], w, m, F, R)
                      /\ f[i].stage = "body" => Len(f[i].buffer) + i <= Len(c.buffer)
           T == {i \in 0..N : ~Fine(i)}
<1>2. \A i \in 0..N : f[i] = IF i = 0 THEN c ELSE Round(f[i - 1])
  BY DEF AreRounds
<1>3. T = {}
  <2>1. SUFFICES ASSUME T # {} PROVE FALSE
    OBVIOUS
  <2>2. PICK j \in T : \A k \in T : j <= k
    <3>1. T \subseteq Nat
      OBVIOUS
    <3> HIDE DEF T
    <3> QED
      BY <2>1, <3>1, LeastNumber
  <2>3. j \in 0..N /\ ~Fine(j)
    OBVIOUS
  <2>4. j # 0
    <3>1. SUFFICES ASSUME j = 0 PROVE FALSE
      OBVIOUS
    <3>2. f[j] = c
      BY <1>2, <2>3, <3>1
    <3> QED
      BY <1>1, <2>3, <3>1, <3>2
  <2>5. j - 1 \in 0..N /\ Fine(j - 1)
    <3>1. j - 1 \in 0..N /\ j - 1 \notin T
      BY <1>1, <2>2, <2>3, <2>4
    <3> QED
      BY <3>1
  <2> DEFINE d == f[j - 1]
             e == f[j]
  <2>6. e = Round(d)
    BY <1>2, <2>3, <2>4
  <2>7. InOrder(d, w, m, F, R) /\ Len(d.buffer) \in Nat
        /\ (d.stage = "body" => Len(d.buffer) + (j - 1) <= Len(c.buffer))
    BY <2>5, BufferLength
  <2>8. ~(InOrder(e, w, m, F, R) /\ (e.stage = "body" => Len(e.buffer) + j <= Len(c.buffer)))
    BY <2>3
  <2> HIDE DEF d, e
  <2>9. /\ InOrder(e, w, m, F, R)
        /\ e.stage = "body" => d.stage = "body" /\ Len(e.buffer) < Len(d.buffer)
    BY <2>6, <2>7, RoundKeeps
  <2>10. Len(e.buffer) \in Nat
    BY <2>9, BufferLength
  <2> QED
    BY <1>1, <2>3, <2>7, <2>8, <2>9, <2>10
<1>4. InOrder(f[N], w, m, F, R) /\ (f[N].stage = "body" => Len(f[N].buffer) + N <= Len(c.buffer))
  <2>1. N \in 0..N /\ N \notin T
    BY <1>1, <1>3
  <2> QED
    BY <2>1
<1>5. f[N].stage # "body"
  <2> DEFINE left == Len(f[N].buffer)
  <2>1. SUFFICES ASSUME f[N].stage = "body" PROVE FALSE
    OBVIOUS
  <2>2. left \in Nat /\ left + N <= Len(c.buffer)
    BY <1>4, <2>1, BufferLength
  <2> HIDE DEF left
  <2> QED
    BY <1>1, <2>2
<1> QED
  BY <1>4, <1>5

\* More bytes behind those in the buffer.
LEMMA FeedKeeps ==
  ASSUME NEW m, NEW F, NEW R, NEW w \in Text, NEW c, InOrder(c, w, m, F, R), c.stage = "body",
         NEW b \in Text, NEW v \in Text, b \o v = w,
         NEW full, Fed(full, c, b)
  PROVE  InOrder(full, v, m, F, R) /\ full.stage = "body" /\ Len(full.buffer) \in Nat
<1>1. c \in ReaderType /\ c.buffer \in Text /\ IsPrefix(c.out, Body(m))
  BY DEF InOrder, ReaderType
<1>2. c.buffer \o b \in Text
  BY <1>1, TextConcat
<1>3. /\ full \in ReaderType /\ full.stage = "body" /\ full.out = c.out /\ full.size = c.size
      /\ full.buffer = c.buffer \o b
  BY <1>1, <1>2 DEF ReaderType, Fed
<1>4. full.buffer \o v = c.buffer \o w
  <2>1. TextsAssociate(c.buffer, b, v)
    BY <1>1, TextAssociates
  <2> QED
    BY <1>3, <2>1 DEF TextsAssociate
<1>5. \A k : /\ BeforeSize(c, w, m, F, R, k) => BeforeSize(full, v, m, F, R, k)
             /\ BeforeChunk(c, w, m, F, R, k) => BeforeChunk(full, v, m, F, R, k)
  BY <1>3, <1>4, Zenon DEF BeforeSize, BeforeChunk
<1>6. Midway(full, v, m, F, R)
  <2>1. Midway(c, w, m, F, R)
    BY DEF InOrder
  <2> QED
    BY <1>5, <2>1 DEF Midway
<1>7. InOrder(full, v, m, F, R)
  BY <1>1, <1>3, <1>6 DEF InOrder
<1> QED
  BY <1>3, <1>7, BufferLength

\* One segment of a chunked body.
LEMMA ChunkedKeeps ==
  ASSUME NEW m, NEW F, NEW R, Layout(m, F, R), Len(m.chunks) \in Nat, NoSize \notin Nat,
         NEW w \in Text, NEW c, InOrder(c, w, m, F, R), c.stage = "body",
         NEW b \in Text, NEW v \in Text, b \o v = w
  PROVE  InOrder(Chunked(c, b), v, m, F, R) /\ Chunked(c, b).stage \in {"body", "finished", "failed"}
<1> DEFINE full == [c EXCEPT !.buffer = @ \o b]
           N == Len(full.buffer) + 1
<1>1. InOrder(full, v, m, F, R) /\ full.stage = "body" /\ Len(full.buffer) \in Nat
  <2>1. Fed(full, c, b)
    BY DEF Fed
  <2> HIDE DEF full
  <2> QED
    BY <2>1, FeedKeeps
<1>2. PICK f : /\ AreRounds(f, full, N)
               /\ Chunked(c, b) = IF f[N].stage = "starved" THEN [f[N] EXCEPT !.stage = "body"] ELSE f[N]
  <2>1. Fed(full, c, b)
    BY DEF Fed
  <2> HIDE DEF full
  <2>2. N = Len(full.buffer) + 1 /\ N \in Nat
    BY <1>1
  <2> HIDE DEF N
  <2> QED
    BY <2>1, <2>2, ChunkedIs
<1> HIDE DEF full
<1>3. InOrder(f[N], v, m, F, R) /\ f[N].stage # "body"
  <2>1. N = Len(full.buffer) + 1
    OBVIOUS
  <2>2. AreRounds(f, full, N)
    BY <1>2
  <2> HIDE DEF N
  <2> QED
    BY <1>1, <2>1, <2>2, LoopKeeps
<1> DEFINE e == f[N]
           d == [e EXCEPT !.stage = "body"]
<1>4. InOrder(e, v, m, F, R) /\ e.stage \in {"starved", "finished", "failed"}
  BY <1>3, BufferLength
<1>5. Chunked(c, b) = IF e.stage = "starved" THEN d ELSE e
  BY <1>2
<1> HIDE DEF e
<1>6. CASE e.stage = "starved"
  <2>1. e \in ReaderType /\ IsPrefix(e.out, Body(m)) /\ Midway(e, v, m, F, R)
    BY <1>4, <1>6 DEF InOrder
  <2>2. /\ d \in ReaderType /\ d.stage = "body" /\ d.out = e.out /\ d.size = e.size
        /\ d.buffer = e.buffer
    BY <2>1 DEF ReaderType
  <2> HIDE DEF d
  <2>3. Midway(d, v, m, F, R)
    BY <2>1, <2>2, Zenon DEF Midway, BeforeSize, BeforeChunk
  <2>4. InOrder(d, v, m, F, R)
    BY <2>1, <2>2, <2>3 DEF InOrder
  <2> QED
    BY <1>5, <1>6, <2>2, <2>4
<1>7. CASE e.stage # "starved"
  BY <1>4, <1>5, <1>7
<1> QED
  BY <1>6, <1>7

-----------------------------------------------------------------------------
(* From the head of the response to its body, however it is framed.         *)

\* The body of a response is text, and empty without chunks.
LEMMA BodyIsText ==
  ASSUME NEW m \in Responses
  PROVE  Body(m) \in Text /\ (m.chunks = <<>> => Body(m) = <<>>)
<1> DEFINE n == Len(m.chunks)
<1>1. /\ n \in Nat /\ (n = 0 => m.chunks = <<>>)
      /\ \A k \in 1..n : m.chunks[k] \in Text
  BY ChunksAreText
<1>2. PICK F, G : Fronts(F, G, m.chunks, n)
  BY <1>1, FlattenFronts
<1>3. /\ F[0] \in Text /\ G[0] \in Text /\ F[0] = <<>>
      /\ n = 0 => G[0] = <<>>
  <2>1. 0 \in 0..n
    BY <1>1
  <2> QED
    BY <1>2, <2>1 DEF Fronts
<1>4. F[0] \o G[0] = Body(m)
  <2>1. 0 \in 0..n
    BY <1>1
  <2> QED
    BY <1>2, <2>1, Zenon DEF Fronts, Body
<1>5. Body(m) = G[0]
  BY <1>3, <1>4, TextIdentity
<1>6. m.chunks = <<>> => n = 0
  BY EmptySeq
<1> QED
  BY <1>3, <1>5, <1>6

\* What is sent for it is text, the body itself unless it is chunked.
LEMMA EncodeIsText ==
  ASSUME NEW m \in Responses
  PROVE  Encode(m) \in Text /\ (m.framing # "chunked" => Encode(m) = Body(m))
<1>1. CASE m.framing = "chunked"
  <2>1. PICK F, R : Layout(m, F, R)
    BY <1>1, LayoutExists
  <2>2. 0 \in 0..Len(m.chunks)
    BY ChunksAreText
  <2> QED
    BY <1>1, <2>1, <2>2 DEF Layout
<1>2. CASE m.framing # "chunked"
  <2>1. Encode(m) = Body(m)
    BY <1>2, Zenon DEF Encode
  <2> QED
    BY <2>1, BodyIsText
<1> QED
  BY <1>1, <1>2

Blank == CRLF \o CRLF

\* The blank line behind the head.
LEMMA BlankIs == Blank \in Text /\ Len(Blank) = 4 /\ Blank[1] = "r" /\ "h" \in Char
<1>1. CRLF \in Text /\ Len(CRLF) = 2 /\ CRLF[1] = "r"
  BY TextIs
<1>2. /\ Blank \in Text /\ Len(Blank) = Len(CRLF) + Len(CRLF)
      /\ \A i \in 1..Len(CRLF) + Len(CRLF) :
            Blank[i] = IF i <= Len(CRLF) THEN CRLF[i] ELSE CRLF[i - Len(CRLF)]
  BY <1>1, TextConcat DEF Blank
<1>3. 1 \in 1..Len(CRLF) + Len(CRLF) /\ 1 <= Len(CRLF)
  BY <1>1
<1> QED
  BY <1>1, <1>2, <1>3 DEF Char

\* The wire begins with the head and its blank line.
LEMMA WireBegins ==
  ASSUME NEW m \in Responses
  PROVE  Wire(m) = Begins("h", Blank, Encode(m)) /\ Wire(m) \in Text
<1> DEFINE l == <<"h">>
           e == Encode(m)
<1>1. l \in Text /\ CRLF \in Text /\ e \in Text /\ Blank \in Text
  BY TextIs, BlankIs, EncodeIsText
<1>2. Wire(m) = ((l \o CRLF) \o CRLF) \o e
  BY Zenon DEF Wire
<1>3. Begins("h", Blank, Encode(m)) = l \o (Blank \o e)
  BY Zenon DEF Begins
<1> HIDE DEF l, e
<1>4. TextsAssociate(l, CRLF, CRLF) /\ TextsAssociate(l, Blank, e)
  BY <1>1, TextAssociates
<1>5. ((l \o CRLF) \o CRLF) \o e = l \o (Blank \o e)
  BY <1>4, Zenon DEF TextsAssociate, Blank
<1>6. l \o (Blank \o e) \in Text
  <2>1. Blank \o e \in Text
    BY <1>1, TextConcat
  <2> QED
    BY <1>1, <2>1, TextConcat
<1> QED
  BY <1>2, <1>3, <1>5, <1>6

\* Behind the head, when it has all arrived.
Headed(q, w, more) ==
  /\ IndexOf(q, Blank) = 2
  /\ Drop(q, 5) \in Text /\ Drop(q, 5) \o w = more

\* The head is recognised when the blank line is all there, and not before.
LEMMA HeadTaken ==
  ASSUME NEW q \in Text, NEW w \in Text, NEW more \in Text, q \o w = Begins("h", Blank, more)
  PROVE  IndexOf(q, Blank) = 0 \/ Headed(q, w, more)
<1>1. Blank \in Text /\ Len(Blank) = 4 /\ "h" \in Char /\ "h" # Blank[1] /\ Len(Blank) # 0
  BY BlankIs
<1>2. IndexOf(q, Blank) = IF Len(q) < Len(Blank) + 1 THEN 0 ELSE 2
  BY <1>1, FoundAtTwo
<1>3. CASE ~(Len(q) < Len(Blank) + 1)
  <2> DEFINE l == <<"h">>
             a == l \o Blank
  <2>1. l \in Text /\ Len(l) = 1
    BY <1>1, TextIs
  <2>2. Begins("h", Blank, more) = l \o (Blank \o more)
    BY Zenon DEF Begins
  <2> HIDE DEF l
  <2>3. a \in Text /\ Len(a) = 5
    <3>1. a \in Text /\ Len(a) = Len(l) + Len(Blank)
      BY <1>1, <2>1, TextConcat
    <3> HIDE DEF a
    <3> QED
      BY <1>1, <2>1, <3>1
  <2>4. q \o w = a \o more
    <3>1. TextsAssociate(l, Blank, more)
      BY <1>1, <2>1, TextAssociates
    <3> QED
      BY <2>2, <3>1 DEF TextsAssociate
  <2> HIDE DEF a
  <2>5. Len(a) <= Len(q)
    <3>1. Len(q) \in Nat
      BY LenProperties DEF Text
    <3> QED
      BY <1>1, <1>3, <2>3, <3>1
  <2>6. Parted(q, w, a, more)
    BY <2>3, <2>4, <2>5, Parts, Zenon
  <2>7. Drop(q, 5) \in Text /\ Drop(q, 5) \o w = more
    BY <2>3, <2>6 DEF Parted
  <2> QED
    BY <1>2, <1>3, <2>7 DEF Headed
<1> QED
  BY <1>2, <1>3

-----------------------------------------------------------------------------
\* The reader c has delivered what it should of m, with w yet to come.
Framed(c, w, m) ==
  CASE m.framing = "chunked" -> \E F, R : Layout(m, F, R) /\ InOrder(c, w, m, F, R)
    [] m.framing = "length" -> c.out \o w = Body(m) /\ c.left = Len(w)
    [] m.framing = "close" -> c.out \o w = Body(m)
    [] OTHER -> FALSE

Right(c, w, m) ==
  /\ c \in ReaderType
  /\ IsPrefix(c.out, Body(m))
  /\ c.stage = "finished" /\ m.framing # "close" => c.out = Body(m)
  /\ c.stage = "body" => Framed(c, w, m)

\* What is passed on as it comes is a front of the body.
LEMMA PlainKeeps ==
  ASSUME NEW m \in Responses, NEW w \in Text, NEW c \in ReaderType, c.stage = "body",
         c.out \o w = Body(m), NEW b \in Text, NEW v \in Text, b \o v = w
  PROVE  /\ c.out \o b \in Text /\ (c.out \o b) \o v = Body(m)
         /\ IsPrefix(c.out \o b, Body(m))
<1>1. c.out \in Text /\ c.out \o b \in Text
  <2>1. c.out \in Text
    BY DEF ReaderType
  <2> QED
    BY <2>1, TextConcat
<1>2. (c.out \o b) \o v = Body(m)
  <2>1. TextsAssociate(c.out, b, v)
    BY <1>1, TextAssociates
  <2> QED
    BY <2>1 DEF TextsAssociate
<1> DEFINE a == c.out \o b
<1>3. a \in Text /\ a \o v = Body(m)
  BY <1>1, <1>2
<1> HIDE DEF a
<1>4. IsPrefix(a, a \o v)
  BY <1>3, IsFront
<1> QED
  BY <1>1, <1>2, <1>3, <1>4 DEF a

\* A body of known length ends with its last byte.
LEMMA ByLengthKeeps ==
  ASSUME NEW m \in Responses, m.framing = "length", NEW w \in Text, NEW c \in ReaderType, c.stage = "body",
         c.out \o w = Body(m), c.left = Len(w), NEW b \in Text, NEW v \in Text, b \o v = w
  PROVE  Right(ByLength(c, b), v, m)
<1> DEFINE taken == SubSeq(b, 1, IF Len(b) < c.left THEN Len(b) ELSE c.left)
           d == [c EXCEPT !.out = @ \o taken,
                          !.left = @ - Len(taken),
                          !.stage = IF c.left = Len(taken) THEN "finished" ELSE @]
           now == c.out \o b
<1>1. ByLength(c, b) = d
  BY Zenon DEF ByLength
<1>2. Len(w) = Len(b) + Len(v) /\ Len(b) \in Nat /\ Len(v) \in Nat
  BY TextConcat
<1>3. taken = b
  <2>1. (IF Len(b) < c.left THEN Len(b) ELSE c.left) = Len(b)
    BY <1>2
  <2>2. Len(b) \in 0..Len(b)
    BY <1>2
  <2>3. /\ SubSeq(b, 1, Len(b)) \in Text /\ Len(SubSeq(b, 1, Len(b))) = Len(b)
        /\ \A i \in 1..Len(b) : SubSeq(b, 1, Len(b))[i] = b[i]
    BY <2>2, CutText
  <2>4. SubSeq(b, 1, Len(b)) = b
    BY <2>3, SeqEqual DEF Text
  <2> QED
    BY <2>1, <2>4
<1>4. now \in Text /\ now \o v = Body(m) /\ IsPrefix(now, Body(m))
  BY PlainKeeps
<1> DEFINE e == [c EXCEPT !.out = now, !.left = c.left - Len(b),
                          !.stage = IF c.left = Len(b) THEN "finished" ELSE "body"]
<1>5. d = e
  BY <1>3, Zenon
<1>6. c.left - Len(b) = Len(v)
  BY <1>2
<1> HIDE DEF d, now
<1>7. /\ e.out = now /\ e.left = Len(v) /\ e.stage = IF c.left = Len(b) THEN "finished" ELSE "body"
      /\ e \in ReaderType
  BY <1>2, <1>4, <1>6 DEF ReaderType
<1> HIDE DEF e
<1>8. e.stage = "finished" => e.out = Body(m)
  <2>1. SUFFICES ASSUME e.stage = "finished" PROVE now = Body(m)
    BY <1>7
  <2>2. Len(v) = 0
    BY <1>2, <1>7, <2>1
  <2>3. v = <<>>
    BY <2>2, EmptySeq DEF Text
  <2> QED
    BY <1>4, <2>3, TextIdentity
<1>9. Framed(e, v, m)
  BY <1>4, <1>7 DEF Framed
<1> QED
  BY <1>1, <1>4, <1>5, <1>7, <1>8, <1>9 DEF Right

\* consumeBody() keeps the reader right, whatever the framing.
LEMMA ConsumeKeeps ==
  ASSUME response \in Responses, NEW w \in Text, NEW c, Right(c, w, response), c.stage = "body",
         NEW b \in Text, NEW v \in Text, b \o v = w
  PROVE  Right(ConsumeBody(c, b), v, response)
<1>1. c \in ReaderType /\ Framed(c, w, response)
  BY DEF Right
<1>2. CASE b = <<>>
  <2>1. v = w
    BY <1>2, TextIdentity
  <2>2. ConsumeBody(c, b) = c
    BY <1>2, Zenon DEF ConsumeBody
  <2> QED
    BY <2>1, <2>2
<1>3. CASE b # <<>> /\ response.framing = "chunked"
  <2>1. ConsumeBody(c, b) = Chunked(c, b)
    BY <1>3, Zenon DEF ConsumeBody
  <2>2. PICK F, R : Layout(response, F, R) /\ InOrder(c, w, response, F, R)
    BY <1>1, <1>3 DEF Framed
  <2>3. Len(response.chunks) \in Nat /\ NoSize \notin Nat
    BY ChunksAreText, ResponsesAssumption
  <2>4. InOrder(Chunked(c, b), v, response, F, R)
    BY <2>2, <2>3, ChunkedKeeps
  <2> DEFINE d == Chunked(c, b)
  <2> HIDE DEF d
  <2>5. InOrder(d, v, response, F, R)
    BY <2>4 DEF d
  <2>6. Framed(d, v, response)
    BY <1>3, <2>2, <2>5 DEF Framed
  <2>7. Right(d, v, response)
    BY <2>5, <2>6 DEF Right, InOrder
  <2> QED
    BY <2>1, <2>7 DEF d
<1>4. CASE b # <<>> /\ response.framing = "length"
  <2>1. ConsumeBody(c, b) = ByLength(c, b)
    BY <1>4 DEF ConsumeBody
  <2>2. c.out \o w = Body(response) /\ c.left = Len(w)
    BY <1>1, <1>4 DEF Framed
  <2> QED
    BY <1>1, <1>4, <2>1, <2>2, ByLengthKeeps
<1>5. CASE b # <<>> /\ response.framing = "close"
  <2>1. ConsumeBody(c, b) = Plain(c, b)
    BY <1>5 DEF ConsumeBody
  <2>2. c.out \o w = Body(response)
    BY <1>1, <1>5 DEF Framed
  <2> DEFINE now == c.out \o b
             d == [c EXCEPT !.out = now]
  <2>3. Plain(c, b) = d
    BY Zenon DEF Plain
  <2>4. now \in Text /\ now \o v = Body(response) /\ IsPrefix(now, Body(response))
    BY <1>1, <2>2, PlainKeeps
  <2> HIDE DEF now
  <2>5. d \in ReaderType /\ d.out = now /\ d.stage = "body"
    BY <1>1, <2>4 DEF ReaderType
  <2> HIDE DEF d
  <2>6. Framed(d, v, response)
    BY <1>5, <2>4, <2>5 DEF Framed
  <2> QED
    BY <1>5, <2>1, <2>3, <2>4, <2>5, <2>6 DEF Right
<1>6. CASE response.framing \notin {"chunked", "length", "close"}
  BY <1>1, <1>6 DEF Framed
<1> QED
  BY <1>2, <1>3, <1>4, <1>5, <1>6

-----------------------------------------------------------------------------
(* The invariant of a fetch.                                                *)

Before == {"connecting", "securing", "head"}

\* Before the body, nothing of it has been looked at.
Waiting ==
  /\ delivered = <<>> /\ chunkBuffer = <<>> /\ remaining = 0 /\ chunkSize = NoSize
  /\ headBuffer \in Text
  /\ headBuffer \o unsent = Wire(response)
  /\ stage # "head" => headBuffer = <<>>

BodyInv ==
  /\ response \in Responses /\ unsent \in Text
  /\ stage \in Before => Waiting
  /\ stage = "body" => Right(Reader, unsent, response)
  /\ BodyIsWhole

\* A request that is about to be sent.
Fresh ==
  /\ response \in Responses /\ unsent = Wire(response) /\ headBuffer = <<>> /\ chunkBuffer = <<>>
  /\ delivered = <<>> /\ remaining = 0 /\ chunkSize = NoSize /\ stage = "connecting"

\* A request about to be sent satisfies the invariant.
LEMMA FreshKeeps == Fresh => BodyInv
<1> SUFFICES ASSUME Fresh PROVE BodyInv
  OBVIOUS
<1>0. /\ response \in Responses /\ unsent = Wire(response) /\ headBuffer = <<>> /\ chunkBuffer = <<>>
      /\ delivered = <<>> /\ remaining = 0 /\ chunkSize = NoSize /\ stage = "connecting"
  BY Zenon DEF Fresh
<1>1. unsent \in Text /\ <<>> \in Text /\ Body(response) \in Text
  BY <1>0, WireBegins, TextIs, BodyIsText
<1>2. headBuffer \in Text /\ headBuffer \o unsent = Wire(response)
  BY <1>0, <1>1, TextIdentity
<1>3. IsPrefix(delivered, Body(response))
  <2>1. <<>> \o Body(response) = Body(response)
    BY <1>1, TextIdentity
  <2> QED
    BY <1>0, <1>1, <2>1, IsFront
<1>4. Waiting
  BY <1>0, <1>2 DEF Waiting
<1> QED
  BY <1>0, <1>1, <1>3, <1>4 DEF BodyInv, BodyIsWhole, Before

\* The first request is such a one.
LEMMA InitBodyInv == TunnelInit => BodyInv
<1>1. TunnelInit => Fresh
  BY Zenon DEF TunnelInit, Fresh
<1> QED
  BY <1>1, FreshKeeps

\* A redirect makes such a one.
LEMMA FreshNext == Fresh' => BodyInv'
  BY FreshKeeps, PTL

\* A segment is a front of what is yet to be sent.
LEMMA SegmentIs ==
  ASSUME unsent \in Text, NEW bytes \in Segment, unsent' = Drop(unsent, Len(bytes))
  PROVE  bytes \in Text /\ unsent' \in Text /\ bytes \o unsent' = unsent
<1>1. PICK n \in 1..Len(unsent) : bytes = SubSeq(unsent, 1, n)
  BY DEF Segment
<1>2. n \in 0..Len(unsent)
  BY <1>1
<1>3. /\ bytes \in Text /\ Len(bytes) = n /\ Drop(unsent, n) \in Text /\ bytes \o Drop(unsent, n) = unsent
  BY <1>1, <1>2, CutText
<1> QED
  BY <1>3

\* What the reader of the body has made of a segment.
LEMMA BecomesInv ==
  ASSUME response \in Responses, response' = response, unsent' \in Text,
         NEW c, Right(c, unsent', response), Becomes(c)
  PROVE  BodyInv'
<1>1. /\ stage' = c.stage /\ delivered' = c.out /\ remaining' = c.left
      /\ chunkBuffer' = c.buffer /\ chunkSize' = c.size
  BY Zenon DEF Becomes
<1>2. /\ c \in ReaderType /\ IsPrefix(c.out, Body(response))
      /\ c.stage = "finished" /\ response.framing # "close" => c.out = Body(response)
  BY DEF Right
<1>3. c.stage \in {"body", "starved", "finished", "failed"}
  BY <1>2 DEF ReaderType
<1>4. c.stage = "body" => Reader' = c
  <2>1. Reader' = [stage |-> "body", out |-> c.out, left |-> c.left, buffer |-> c.buffer, size |-> c.size]
    BY <1>1, Zenon DEF Reader
  <2>2. c = [stage |-> c.stage, out |-> c.out, left |-> c.left, buffer |-> c.buffer, size |-> c.size]
    BY <1>2 DEF ReaderType
  <2> QED
    BY <2>1, <2>2, Zenon
<1>5. stage' \notin Before
  BY <1>1, <1>3 DEF Before
<1>6. stage' = "body" => Right(Reader, unsent, response)'
  <2>1. SUFFICES ASSUME stage' = "body" PROVE Right(Reader', unsent', response')
    BY Zenon DEF Right, Framed
  <2>2. Reader' = c
    BY <1>1, <1>4, <2>1
  <2> QED
    BY <2>2, Zenon
<1>7. BodyIsWhole'
  BY <1>1, <1>2 DEF BodyIsWhole
<1> QED
  BY <1>5, <1>6, <1>7 DEF BodyInv

\* The reader stops, with what it has.
LEMMA StopsInv ==
  ASSUME BodyInv, response' = response, unsent' = unsent, delivered' = delivered,
         stage' \in {"failed", "cancelled"} \/ (stage' = "finished" /\ response.framing = "close")
  PROVE  BodyInv'
  BY DEF BodyInv, BodyIsWhole, Before

\* Data before the end of the head, with perhaps the first bytes of the body.
LEMMA HeadDataInv ==
  ASSUME BodyInv, HeadData
  PROVE  BodyInv'
<1>1. /\ response \in Responses /\ unsent \in Text /\ stage = "head" /\ response' = response
      /\ Waiting /\ IsPrefix(delivered, Body(response))
  BY DEF BodyInv, HeadData, Before, BodyIsWhole
<1> DEFINE bare == [Reader EXCEPT !.left = Len(Body(response))]
           goes(q) == IF response.framing = "none" \/ (response.framing = "length" /\ bare.left = 0)
                      THEN [bare EXCEPT !.stage = "finished"]
                      ELSE ConsumeBody(bare, q)
<1>2. PICK bytes \in Segment :
        /\ unsent' = Drop(unsent, Len(bytes))
        /\ IF IndexOf(headBuffer \o bytes, Blank) = 0
           THEN headBuffer' = headBuffer \o bytes
                /\ UNCHANGED <<stage, socket, delivered, remaining, chunkBuffer, chunkSize>>
           ELSE Becomes(goes(Drop(headBuffer \o bytes, IndexOf(headBuffer \o bytes, Blank) + 3)))
  BY DEF HeadData, Blank
<1> HIDE DEF goes
<1> DEFINE q == headBuffer \o bytes
<1>3. bytes \in Text /\ unsent' \in Text /\ bytes \o unsent' = unsent
  BY <1>1, <1>2, SegmentIs
<1>4. q \in Text /\ q \o unsent' = Wire(response)
  <2>1. headBuffer \in Text /\ headBuffer \o unsent = Wire(response)
    BY <1>1 DEF Waiting
  <2>2. TextsAssociate(headBuffer, bytes, unsent')
    BY <1>3, <2>1, TextAssociates
  <2>3. q \in Text
    BY <1>3, <2>1, TextConcat
  <2> QED
    BY <1>3, <2>1, <2>2, <2>3 DEF TextsAssociate
<1> HIDE DEF q
<1>5. q \o unsent' = Begins("h", Blank, Encode(response)) /\ Encode(response) \in Text
  BY <1>1, <1>4, WireBegins, EncodeIsText
<1>6. CASE IndexOf(q, Blank) = 0
  <2>1. headBuffer' = q /\ UNCHANGED <<stage, delivered, remaining, chunkBuffer, chunkSize>>
    BY <1>2, <1>6 DEF q
  <2>2. Waiting'
    BY <1>1, <1>4, <2>1 DEF Waiting, Wire, Encode, Body
  <2> QED
    BY <1>1, <1>3, <2>1, <2>2 DEF BodyInv, BodyIsWhole, Before
<1>7. CASE IndexOf(q, Blank) # 0
  <2> DEFINE rest == Drop(q, 5)
  <2>1. Headed(q, unsent', Encode(response))
    BY <1>3, <1>4, <1>5, <1>7, HeadTaken
  <2>2. rest \in Text /\ rest \o unsent' = Encode(response) /\ IndexOf(q, Blank) = 2
    BY <2>1 DEF Headed
  <2>3. Becomes(goes(rest))
    <3>1. Becomes(goes(Drop(q, IndexOf(q, Blank) + 3)))
      BY <1>2, <1>7, Zenon DEF q
    <3>2. IndexOf(q, Blank) + 3 = 5
      BY <2>2
    <3> QED
      BY <3>1, <3>2
  <2> HIDE DEF rest
  <2>4. bare = [stage |-> "body", out |-> <<>>, left |-> Len(Body(response)),
                buffer |-> <<>>, size |-> NoSize]
    BY <1>1 DEF Waiting, Reader
  <2>5. Body(response) \in Text /\ Len(Body(response)) \in Nat /\ <<>> \in Text
    BY <1>1, BodyIsText, TextIs, LenProperties DEF Text
  <2> DEFINE body == Body(response)
  <2>6. /\ bare \in ReaderType /\ bare.stage = "body" /\ bare.out = <<>> /\ bare.size = NoSize
        /\ bare.buffer = <<>> /\ bare.left = Len(body)
    BY <2>4, <2>5 DEF ReaderType
  <2>7. IsPrefix(bare.out, Body(response)) /\ <<>> \o Body(response) = Body(response)
    <3>1. <<>> \o Body(response) = Body(response)
      BY <2>5, TextIdentity
    <3> QED
      BY <1>1, <2>6, <3>1 DEF Waiting
  <2> HIDE DEF bare
  <2>8. CASE response.framing = "none" \/ (response.framing = "length" /\ bare.left = 0)
    <3> DEFINE c == [bare EXCEPT !.stage = "finished"]
    <3>1. goes(rest) = c
      BY <2>8 DEF goes, bare
    <3>2. c \in ReaderType /\ c.stage = "finished" /\ c.out = <<>>
      BY <2>6 DEF ReaderType
    <3>3. Body(response) = <<>>
      <4>1. CASE response.framing = "none"
        BY <1>1, <4>1, ResponsesAssumption, BodyIsText
      <4>2. CASE bare.left = 0
        BY <2>5, <2>6, <4>2, EmptySeq DEF Text
      <4> QED
        BY <2>8, <4>1, <4>2
    <3> HIDE DEF c
    <3>4. Right(c, unsent', response)
      BY <2>6, <2>7, <3>2, <3>3 DEF Right
    <3> QED
      BY <1>1, <1>3, <2>3, <3>1, <3>4, BecomesInv
  <2>9. CASE ~(response.framing = "none" \/ (response.framing = "length" /\ bare.left = 0))
    <3>1. goes(rest) = ConsumeBody(bare, rest)
      BY <2>9 DEF goes, bare
    <3>2. Framed(bare, Encode(response), response)
      <4>1. CASE response.framing = "chunked"
        <5>1. PICK F, R : Layout(response, F, R)
          BY <1>1, <4>1, LayoutExists
        <5>2. 0 \in 0..Len(response.chunks)
          BY <1>1, ChunksAreText
        <5>3. bare.out = F[0] /\ bare.buffer \o Encode(response) = R[0]
          <6>1. <<>> \o Encode(response) = Encode(response)
            BY <1>5, TextIdentity
          <6> QED
            BY <2>6, <5>1, <6>1 DEF Layout
        <5>4. BeforeSize(bare, Encode(response), response, F, R, 0)
          BY <2>6, <5>3 DEF BeforeSize
        <5>5. InOrder(bare, Encode(response), response, F, R)
          BY <2>6, <2>7, <5>2, <5>4 DEF InOrder, Midway
        <5> QED
          BY <4>1, <5>1, <5>5 DEF Framed
      <4>2. CASE response.framing # "chunked"
        <5>1. Encode(response) = Body(response)
          BY <1>1, <4>2, EncodeIsText
        <5>2. response.framing \in {"length", "close"}
          BY <1>1, <2>9, <4>2, ResponsesAssumption
        <5>3. bare.out \o Encode(response) = Body(response) /\ bare.left = Len(Encode(response))
          BY <2>6, <2>7, <5>1
        <5> QED
          BY <5>2, <5>3 DEF Framed
      <4> QED
        BY <4>1, <4>2
    <3>3. Right(bare, Encode(response), response)
      BY <2>6, <2>7, <3>2 DEF Right
    <3>4. Right(ConsumeBody(bare, rest), unsent', response)
      BY <1>1, <1>3, <1>5, <2>2, <2>6, <3>3, ConsumeKeeps
    <3> QED
      BY <1>1, <1>3, <2>3, <3>1, <3>4, BecomesInv
  <2> QED
    BY <2>8, <2>9
<1> QED
  BY <1>6, <1>7

\* Data of the body.
LEMMA BodyDataInv ==
  ASSUME BodyInv, BodyData
  PROVE  BodyInv'
<1>1. /\ response \in Responses /\ unsent \in Text /\ stage = "body" /\ response' = response
      /\ Right(Reader, unsent, response)
  BY DEF BodyInv, BodyData
<1>2. PICK bytes \in Segment : unsent' = Drop(unsent, Len(bytes)) /\ Becomes(ConsumeBody(Reader, bytes))
  BY DEF BodyData
<1>3. bytes \in Text /\ unsent' \in Text /\ bytes \o unsent' = unsent
  BY <1>1, <1>2, SegmentIs
<1>4. Reader.stage = "body"
  BY DEF Reader
<1>5. Right(ConsumeBody(Reader, bytes), unsent', response)
  BY <1>1, <1>3, <1>4, ConsumeKeeps
<1> QED
  BY <1>1, <1>2, <1>3, <1>5, BecomesInv

\* Every step of a fetch keeps the invariant.
LEMMA NextBodyInv == BodyInv /\ [TunnelNext]_tunnelVars => BodyInv'
<1> SUFFICES ASSUME BodyInv, [TunnelNext]_tunnelVars PROVE BodyInv'
  OBVIOUS
<1>1. ASSUME UNCHANGED exchange, UNCHANGED stage
      PROVE  BodyInv'
  BY <1>1 DEF exchange, BodyInv, BodyIsWhole, Before, Waiting, Reader, Wire, Encode, Body, Right, Framed
<1>2. ASSUME UNCHANGED exchange, stage \in {"connecting", "securing"}, stage' \in {"securing", "head"}
      PROVE  BodyInv'
  BY <1>2 DEF exchange, BodyInv, BodyIsWhole, Before, Waiting, Wire, Encode, Body
<1>3. ASSUME UNCHANGED exchange, stage' = "failed"
      PROVE  BodyInv'
  BY <1>3, StopsInv DEF exchange
<1>4. CASE LinkUp \/ Secured
  BY <1>2, <1>4, Zenon DEF LinkUp, Secured
<1>5. CASE LinkFails \/ AbortLink \/ SecureFails
  BY <1>3, <1>5 DEF LinkFails, AbortLink, SecureFails
<1>6. CASE LateLink \/ FetchStops \/ UNCHANGED tunnelVars
  BY <1>1, <1>6 DEF LateLink, FetchStops, tunnelVars, exchange
<1>7. CASE ConnectionEnds \/ Breaks \/ CancelBody
  <2>1. \E c \in {"finished", "failed", "cancelled"} :
          /\ Becomes([Reader EXCEPT !.stage = c])
          /\ c = "finished" => response.framing = "close"
    BY <1>7 DEF ConnectionEnds, Breaks, CancelBody, EndMeans
  <2>2. response' = response /\ unsent' = unsent
    BY <1>7 DEF ConnectionEnds, Breaks, CancelBody
  <2>3. /\ stage' \in {"failed", "cancelled"} \/ (stage' = "finished" /\ response.framing = "close")
        /\ delivered' = delivered
    BY <2>1 DEF Becomes, Reader
  <2> QED
    BY <2>2, <2>3, StopsInv
<1>8. CASE Redirect
  <2>1. CASE policy = "error" \/ hops >= MaxRedirects
    BY <1>3, <1>8, <2>1 DEF Redirect
  <2>2. CASE ~(policy = "error" \/ hops >= MaxRedirects)
    <3>1. Fresh'
      BY <1>8, <2>2 DEF Redirect, Fresh, Wire, Encode, Body
    <3> QED
      BY <3>1, FreshNext
  <2> QED
    BY <2>1, <2>2
<1> QED
  BY <1>4, <1>5, <1>6, <1>7, <1>8, HeadDataInv, BodyDataInv DEF TunnelNext

\* However a response is cut into segments, what its reader gets is a front of
\* the body, and all of it when the body is taken to be complete, unless the
\* end of the connection is what frames it (consumeBody() and the head parser
\* of tunnel-fetch.ts, redirects included).
THEOREM BodyStaysWhole == TunnelInit /\ [][TunnelNext]_tunnelVars => []BodyIsWhole
<1>1. BodyInv => BodyIsWhole
  BY DEF BodyInv
<1> QED
  BY <1>1, InitBodyInv, NextBodyInv, PTL

=============================================================================

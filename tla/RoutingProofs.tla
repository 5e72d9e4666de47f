--------------------------- MODULE RoutingProofs ---------------------------
(***************************************************************************)
(* Proofs about Routing, for any tree of machines.  The distance that is   *)
(* left depends on how far the two paths agree: a process that climbs      *)
(* leaves that unchanged until it is above the target, or at another root, *)
(* and one that descends makes it grow by one at each hop.                 *)
(***************************************************************************)
EXTENDS Routing, WellFoundedInduction, TLAPS

Path == Seq(STRING) \ {<<>>}
Host == Number \cup {"0", "00"}
Process == [path: Path, host: Host]

(* The first n names of the two paths agree, and no more. *)
Agree(p, q, n) == /\ n \in 0 .. Len(p) /\ n <= Len(q)
                  /\ \A i \in 1 .. n : p[i] = q[i]
                  /\ n < Len(p) /\ n < Len(q) => p[n + 1] # q[n + 1]

RoutingInv == /\ from \in Process /\ to \in Process /\ at \in Process /\ hops \in Nat
              /\ status = "way" => at # to
              /\ ShortestWay

-----------------------------------------------------------------------------
(* How far two paths agree *)

LEMMA AgreeOnce ==
  ASSUME NEW p \in Path, NEW q \in Path, NEW m, NEW n, Agree(p, q, m), Agree(p, q, n)
  PROVE  m = n
<1>1. m \in Nat /\ n \in Nat /\ Len(p) \in Nat /\ Len(q) \in Nat
  BY DEF Agree, Path
<1>2. ASSUME NEW k \in Nat, NEW l \in Nat, Agree(p, q, k), Agree(p, q, l)
      PROVE  ~(k < l)
  <2>1. SUFFICES ASSUME k < l PROVE FALSE
    OBVIOUS
  <2>2. k < Len(p) /\ k < Len(q) /\ k + 1 \in 1 .. l
    BY <1>1, <1>2, <2>1 DEF Agree
  <2> QED
    BY <1>2, <2>2 DEF Agree
<1> QED
  BY <1>1, <1>2

LEMMA LeastExists ==
  ASSUME NEW D \in SUBSET Nat, D # {}
  PROVE  \E n \in D : \A k \in D : n <= k
<1>1. \E n \in D : \A k \in D : ~(<<k, n>> \in OpToRel(<, Nat))
  BY NatLessThanWellFounded, WFMin
<1>2. PICK n \in D : \A k \in D : ~(<<k, n>> \in OpToRel(<, Nat))
  BY <1>1
<1>3. \A k \in D : ~(k < n)
  BY <1>2 DEF OpToRel
<1> QED
  BY <1>3

LEMMA AgreeExists ==
  ASSUME NEW p \in Path, NEW q \in Path
  PROVE  \E n : Agree(p, q, n)
<1> DEFINE D == {n \in Nat : n = Len(p) \/ n = Len(q) \/ p[n + 1] # q[n + 1]}
<1>1. Len(p) \in Nat /\ Len(q) \in Nat /\ D # {} /\ D \subseteq Nat
  BY DEF Path
<1>2. PICK n \in D : \A k \in D : n <= k
  <2> HIDE DEF D
  <2> QED
    BY <1>1, LeastExists
<1>3. n <= Len(p) /\ n <= Len(q) /\ n \in Nat
  BY <1>1, <1>2
<1>4. ASSUME NEW i \in 1 .. n PROVE p[i] = q[i]
  <2>1. i - 1 \in Nat /\ i - 1 < n /\ (i - 1) + 1 = i
    BY <1>3
  <2>2. i - 1 \notin D
    <3> HIDE DEF D
    <3> QED
      BY <1>2, <1>3, <2>1
  <2> QED
    BY <2>1, <2>2
<1>5. n < Len(p) /\ n < Len(q) => p[n + 1] # q[n + 1]
  BY <1>2
<1> QED
  BY <1>1, <1>3, <1>4, <1>5 DEF Agree

LEMMA CommonIs ==
  ASSUME NEW p \in Path, NEW q \in Path, NEW n, Agree(p, q, n)
  PROVE  Common(p, q) = n
<1>1. \E m \in 0 .. Len(p) : Agree(p, q, m)
  BY DEF Agree
<1>2. Agree(p, q, Common(p, q))
  BY <1>1 DEF Agree, Common
<1> QED
  BY <1>2, AgreeOnce

LEMMA PrefixIs ==
  ASSUME NEW p \in Path, NEW q \in Path
  PROVE  IsPrefix(p, q) <=> Agree(p, q, Len(p))
<1>1. Len(p) \in Nat /\ Len(q) \in Nat /\ p \in Seq(STRING) /\ q \in Seq(STRING)
  BY DEF Path
<1>2. SubSeq(p, 1, Len(p)) = p
  BY <1>1
<1>3. ASSUME Len(p) <= Len(q)
      PROVE  p = SubSeq(q, 1, Len(p)) <=> \A i \in 1 .. Len(p) : p[i] = q[i]
  <2> DEFINE r == SubSeq(q, 1, Len(p))
  <2>1. r \in Seq(STRING) /\ Len(r) = Len(p) /\ \A i \in 1 .. Len(p) : r[i] = q[i]
    BY <1>1, <1>3
  <2> QED
    BY <1>1, <2>1
<1> QED
  BY <1>1, <1>2, <1>3 DEF IsPrefix, Agree

(* The distance, from how far the paths agree. *)
Gate(exit, rise, fall, h) ==
  IF fall > 0 THEN "0" ELSE IF rise > 0 THEN "00" ELSE IF exit = 1 THEN "0" ELSE h

Way(exit, rise, fall, h, g) ==
  exit + rise + fall + (IF g = Gate(exit, rise, fall, h) THEN 0 ELSE 1)

Exit(h) == IF Relays(h) THEN 0 ELSE 1
Rise(p, c) == IF c = 0 THEN Len(p) ELSE Len(p) - c
Fall(q, c) == Len(q) - (IF c = 0 THEN 1 ELSE c)

LEMMA DistanceIs ==
  ASSUME NEW a \in Process, NEW b \in Process, NEW c, Agree(a.path, b.path, c)
  PROVE  Distance(a, b) = IF a = b THEN 0
           ELSE Way(Exit(a.host), Rise(a.path, c), Fall(b.path, c), a.host, b.host)
<1>1. Common(a.path, b.path) = c
  BY CommonIs DEF Process
<1> QED
  BY <1>1 DEF Distance, Way, Gate, Exit, Rise, Fall

LEMMA DistanceType ==
  ASSUME NEW a \in Process, NEW b \in Process
  PROVE  Distance(a, b) \in Nat
<1>1. a.path \in Path /\ b.path \in Path
  BY DEF Process
<1>2. PICK c : Agree(a.path, b.path, c)
  BY <1>1, AgreeExists
<1>3. /\ Len(a.path) \in Nat /\ Len(b.path) \in Nat /\ Len(b.path) > 0
      /\ c \in Nat /\ c <= Len(a.path) /\ c <= Len(b.path)
  BY <1>1, <1>2 DEF Path, Agree
<1>4. Rise(a.path, c) \in Nat /\ Fall(b.path, c) \in Nat
  BY <1>3 DEF Rise, Fall
<1>5. Distance(a, b) = IF a = b THEN 0
        ELSE Way(Exit(a.host), Rise(a.path, c), Fall(b.path, c), a.host, b.host)
  BY <1>2, DistanceIs
<1> QED
  BY <1>4, <1>5 DEF Way, Exit

-----------------------------------------------------------------------------
(* One hop *)

(* Up: the paths agree no more than before, or in the root of the target. *)
LEMMA Above ==
  ASSUME NEW p \in Path, NEW q \in Path, NEW c, Agree(p, q, c), c < Len(p), Len(p) > 1
  PROVE  Front(p) \in Path /\ Len(Front(p)) = Len(p) - 1 /\ Agree(Front(p), q, c)
<1> DEFINE r == Front(p)
<1>1. Len(p) \in Nat /\ Len(q) \in Nat /\ c \in Nat /\ p \in Seq(STRING)
  BY DEF Path, Agree
<1>2. r \in Seq(STRING) /\ Len(r) = Len(p) - 1 /\ \A i \in 1 .. Len(p) - 1 : r[i] = p[i]
  BY <1>1 DEF Front
<1>3. r # <<>>
  BY <1>1, <1>2
<1> HIDE DEF r
<1>4. Agree(r, q, c)
  BY <1>1, <1>2 DEF Agree
<1> QED
  BY <1>2, <1>3, <1>4 DEF r, Path

LEMMA Root ==
  ASSUME NEW q \in Path
  PROVE  /\ <<Head(q)>> \in Path /\ Len(<<Head(q)>>) = 1
         /\ Agree(<<Head(q)>>, q, 1)
<1>1. q \in Seq(STRING) /\ Len(q) \in Nat /\ Len(q) > 0
  BY DEF Path
<1>2. Head(q) = q[1] /\ Head(q) \in STRING
  BY <1>1
<1> DEFINE r == <<Head(q)>>
<1>3. r \in Seq(STRING) /\ Len(r) = 1 /\ r[1] = q[1] /\ r # <<>>
  BY <1>2
<1> HIDE DEF r
<1>4. Agree(r, q, 1)
  BY <1>1, <1>3 DEF Agree
<1> QED
  BY <1>3, <1>4 DEF Path, r

(* Down: they agree in one name more. *)
LEMMA Below ==
  ASSUME NEW p \in Path, NEW q \in Path, Agree(p, q, Len(p)), p # q
  PROVE  /\ Len(p) \in Nat /\ Len(q) \in Nat /\ Len(p) < Len(q)
         /\ SubSeq(q, 1, Len(p) + 1) \in Path
         /\ Len(SubSeq(q, 1, Len(p) + 1)) = Len(p) + 1
         /\ Agree(SubSeq(q, 1, Len(p) + 1), q, Len(p) + 1)
         /\ Len(q) = Len(p) + 1 => SubSeq(q, 1, Len(p) + 1) = q
<1>1. Len(p) \in Nat /\ Len(q) \in Nat /\ p \in Seq(STRING) /\ q \in Seq(STRING)
      /\ Len(p) <= Len(q)
  BY DEF Path, Agree
<1>2. Len(p) # Len(q)
  <2>1. SUFFICES ASSUME Len(p) = Len(q) PROVE FALSE
    OBVIOUS
  <2>2. \A i \in 1 .. Len(p) : p[i] = q[i]
    BY DEF Agree
  <2> QED
    BY <1>1, <2>1, <2>2
<1> DEFINE r == SubSeq(q, 1, Len(p) + 1)
<1>3. r \in Seq(STRING) /\ Len(r) = Len(p) + 1 /\ \A i \in 1 .. Len(p) + 1 : r[i] = q[i]
  BY <1>1, <1>2
<1>4. r # <<>>
  BY <1>1, <1>3
<1>5. Len(q) = Len(p) + 1 => r = q
  BY <1>1, <1>3
<1> HIDE DEF r
<1>6. Agree(r, q, Len(p) + 1)
  BY <1>1, <1>2, <1>3 DEF Agree
<1> QED
  BY <1>1, <1>2, <1>3, <1>4, <1>5, <1>6 DEF r, Path

LEMMA Hosts ==
  /\ Relays("0") /\ Relays("00") /\ "0" \in Host /\ "00" \in Host /\ "0" # "00"
BY DEF Relays, Host

LEMMA PostHop ==
  ASSUME NEW a \in Process, NEW b \in Process, a # b, a.path = b.path
  PROVE  post(a, b) \in Process /\ Distance(a, b) = Distance(post(a, b), b) + 1
<1> DEFINE n == post(a, b)
<1>1. a.path \in Path /\ a.host \in Host /\ b.host \in Host /\ Len(a.path) \in Nat
      /\ Len(a.path) > 0
  BY DEF Process, Path
<1>2. Agree(a.path, b.path, Len(a.path))
  BY <1>1 DEF Agree
<1>3. n \in Process /\ n.path = b.path
      /\ n.host = IF Relays(a.host) THEN b.host ELSE "0"
  BY <1>1, Hosts DEF post, Addr, Process
<1>4. a.host # b.host
  BY DEF Process
<1>5. n = b <=> n.host = b.host
  BY <1>3 DEF Process
<1>6. Rise(a.path, Len(a.path)) = 0 /\ Fall(b.path, Len(a.path)) = 0
  BY <1>1 DEF Rise, Fall
<1>7. Distance(a, b) = Way(Exit(a.host), 0, 0, a.host, b.host)
  BY <1>2, <1>6, DistanceIs
<1>8. Distance(n, b) = IF n = b THEN 0 ELSE Way(Exit(n.host), 0, 0, n.host, b.host)
  BY <1>2, <1>3, <1>6, DistanceIs
<1> HIDE DEF n
<1>9. Distance(a, b) = Distance(n, b) + 1
  BY <1>3, <1>4, <1>5, <1>7, <1>8, Hosts DEF Way, Gate, Exit, Relays
<1> QED
  BY <1>3, <1>9 DEF n

LEMMA DownHop ==
  ASSUME NEW a \in Process, NEW b \in Process, a.path # b.path,
         Agree(a.path, b.path, Len(a.path)), a.host = "00"
  PROVE  down(a, b) \in Process /\ Distance(a, b) = Distance(down(a, b), b) + 1
<1> DEFINE n == down(a, b)
           l == Len(a.path)
           m == Len(b.path)
<1>1. /\ a.path \in Path /\ b.path \in Path /\ b.host \in Host
      /\ a.path # <<>> /\ l \in Nat /\ l > 0
  BY DEF Process, Path
<1>2. /\ m \in Nat /\ l < m
      /\ SubSeq(b.path, 1, l + 1) \in Path /\ Len(SubSeq(b.path, 1, l + 1)) = l + 1
      /\ Agree(SubSeq(b.path, 1, l + 1), b.path, l + 1)
      /\ m = l + 1 => SubSeq(b.path, 1, l + 1) = b.path
  BY <1>1, Below
<1>3. /\ n \in Process /\ n.path = SubSeq(b.path, 1, l + 1)
      /\ n.host = IF m = l + 1 THEN "0" ELSE "00"
  BY <1>2, Hosts DEF down, Addr, Process
<1>4. Agree(n.path, b.path, l + 1) /\ Len(n.path) = l + 1
  BY <1>2, <1>3
<1>5. a # b
  OBVIOUS
<1>6. n = b <=> m = l + 1 /\ b.host = "0"
  <2>1. n = b => m = l + 1 /\ b.host = "0"
    BY <1>2, <1>3
  <2>2. m = l + 1 /\ b.host = "0" => n = b
    BY <1>2, <1>3 DEF Process
  <2> QED
    BY <2>1, <2>2
<1>7. Distance(a, b) = Way(Exit(a.host), 0, m - l, a.host, b.host)
  <2>1. Rise(a.path, l) = 0 /\ Fall(b.path, l) = m - l
    BY <1>1, <1>2 DEF Rise, Fall
  <2> QED
    BY <1>5, <2>1, DistanceIs
<1>8. Distance(n, b) = IF n = b THEN 0
                       ELSE Way(Exit(n.host), 0, m - (l + 1), n.host, b.host)
  <2> DEFINE k == l + 1
  <2>1. /\ Agree(n.path, b.path, k) /\ Len(n.path) = k /\ k # 0
        /\ k \in Nat /\ n \in Process
    BY <1>1, <1>3, <1>4
  <2> HIDE DEF n, k
  <2>2. Rise(n.path, k) = 0 /\ Fall(b.path, k) = m - k
    BY <2>1 DEF Rise, Fall
  <2>3. Distance(n, b) = IF n = b THEN 0
                         ELSE Way(Exit(n.host), 0, m - k, n.host, b.host)
    BY <2>1, <2>2, DistanceIs
  <2> QED
    BY <2>3 DEF k
<1> HIDE DEF n, l, m
<1>9. Distance(a, b) = Distance(n, b) + 1
  BY <1>1, <1>2, <1>3, <1>6, <1>7, <1>8, Hosts DEF Way, Gate, Exit, Relays
<1> QED
  BY <1>3, <1>9 DEF n

LEMMA UpHop ==
  ASSUME NEW a \in Process, NEW b \in Process, ~Agree(a.path, b.path, Len(a.path))
  PROVE  up(a, b) \in Process /\ Distance(a, b) = Distance(up(a, b), b) + 1
<1> DEFINE n == up(a, b)
           l == Len(a.path)
           m == Len(b.path)
<1>1. /\ a.path \in Path /\ b.path \in Path /\ b.host \in Host /\ a.host \in Host
      /\ l \in Nat /\ l > 0 /\ m \in Nat /\ m > 0
  BY DEF Process, Path
<1>2. PICK c : Agree(a.path, b.path, c)
  BY <1>1, AgreeExists
<1>3. c \in Nat /\ c < l /\ c <= m
  BY <1>1, <1>2 DEF Agree
<1>4. a.path # b.path
  BY <1>1 DEF Agree
<1>5. Distance(a, b) = Way(Exit(a.host), Rise(a.path, c), Fall(b.path, c), a.host, b.host)
  BY <1>2, <1>4, DistanceIs
<1>6. CASE ~Relays(a.host)
  <2>1. n \in Process /\ n.path = a.path /\ n.host = "0"
    BY <1>1, <1>6, Hosts DEF up, Addr, Process
  <2>2. Distance(n, b) = Way(Exit(n.host), Rise(a.path, c), Fall(b.path, c), n.host, b.host)
    BY <1>2, <1>4, <2>1, DistanceIs
  <2>3. Rise(a.path, c) \in Nat /\ Rise(a.path, c) > 0 /\ Fall(b.path, c) \in Nat
    BY <1>1, <1>3 DEF Rise, Fall
  <2> HIDE DEF n
  <2>4. Distance(a, b) = Distance(n, b) + 1
    BY <1>5, <1>6, <2>1, <2>2, <2>3, Hosts DEF Way, Gate, Exit
  <2> QED
    BY <2>1, <2>4 DEF n
<1>7. CASE Relays(a.host) /\ l = 1
  <2>1. n \in Process /\ n.path = <<Head(b.path)>> /\ n.host = "00"
    BY <1>1, <1>7, Root, Hosts DEF up, Addr, Process
  <2>2. Agree(n.path, b.path, 1) /\ Len(n.path) = 1
    BY <1>1, <2>1, Root
  <2>3. Rise(n.path, 1) = 0 /\ Fall(b.path, 1) = m - 1
    BY <2>2 DEF Rise, Fall
  <2>4. Distance(n, b) = IF n = b THEN 0
                         ELSE Way(Exit(n.host), 0, m - 1, n.host, b.host)
    BY <2>1, <2>2, <2>3, DistanceIs
  <2>5. c = 0
    BY <1>3, <1>7
  <2>6. Distance(a, b) = Way(0, 1, m - 1, a.host, b.host)
    BY <1>5, <1>7, <2>5 DEF Exit, Rise, Fall
  <2>7. n = b <=> m = 1 /\ b.host = "00"
    <3>1. n = b => m = 1 /\ b.host = "00"
      BY <2>1, <2>2
    <3>2. ASSUME m = 1, b.host = "00" PROVE n = b
      <4>1. n.path = b.path
        BY <1>1, <2>1, <3>2 DEF Path
      <4> QED
        BY <2>1, <3>2, <4>1 DEF Process
    <3> QED
      BY <3>1, <3>2
  <2> HIDE DEF n, m
  <2>8. Distance(a, b) = Distance(n, b) + 1
    BY <1>1, <2>1, <2>4, <2>6, <2>7, Hosts DEF Way, Gate, Exit
  <2> QED
    BY <2>1, <2>8 DEF n
<1>8. CASE Relays(a.host) /\ l # 1
  <2>1. Front(a.path) \in Path /\ Len(Front(a.path)) = l - 1 /\ Agree(Front(a.path), b.path, c)
    <3>1. c < Len(a.path) /\ Len(a.path) > 1
      <4>1. c < l
        BY <1>3
      <4>2. l > 1
        <5> HIDE DEF l
        <5> QED
          BY <1>1, <1>8
      <4> QED
        BY <4>1, <4>2
    <3> QED
      BY <1>1, <1>2, <3>1, Above
  <2>2. n \in Process /\ n.path = Front(a.path) /\ n.host = "00"
    BY <1>8, <2>1, Hosts DEF up, Addr, Process
  <2> DEFINE r == IF c = 0 THEN l ELSE l - c
             f == m - (IF c = 0 THEN 1 ELSE c)
  <2>3. /\ Rise(a.path, c) = r /\ Rise(n.path, c) = r - 1 /\ Fall(b.path, c) = f
        /\ r \in Nat /\ r > 0 /\ f \in Nat
    BY <1>1, <1>3, <2>1, <2>2 DEF Rise, Fall
  <2>4. n.path = b.path => r = 1 /\ f = 0
    <3>1. n.path = b.path => Agree(n.path, b.path, m)
      BY <1>1 DEF Agree
    <3>2. n.path = b.path => c = m /\ m = l - 1
      BY <1>1, <2>1, <2>2, <3>1, AgreeOnce
    <3> QED
      BY <1>1, <3>2
  <2>5. r = 1 /\ f = 0 => n.path = b.path
    <3>1. r = 1 /\ f = 0 => c = l - 1 /\ c = m
      BY <1>1, <1>3, <1>8
    <3>2. ASSUME c = l - 1, c = m PROVE n.path = b.path
      <4> DEFINE p == n.path
                 q == b.path
      <4>1. Len(p) = m /\ Len(q) = m /\ p \in Seq(STRING) /\ q \in Seq(STRING)
            /\ \A i \in 1 .. m : p[i] = q[i]
        BY <1>1, <2>1, <2>2, <3>2 DEF Agree, Path
      <4> HIDE DEF p, q
      <4>2. p = q
        BY <1>1, <4>1
      <4> QED
        BY <4>2 DEF p, q
    <3> QED
      BY <3>1, <3>2
  <2>6. n = b <=> r = 1 /\ f = 0 /\ b.host = "00"
    BY <2>2, <2>4, <2>5 DEF Process
  <2>7. Distance(n, b) = IF n = b THEN 0
                         ELSE Way(Exit(n.host), r - 1, f, n.host, b.host)
    BY <2>1, <2>2, <2>3, DistanceIs
  <2>8. Distance(a, b) = Way(0, r, f, a.host, b.host)
    BY <1>5, <1>8, <2>3 DEF Exit
  <2> HIDE DEF n, r, f
  <2>9. Distance(a, b) = Distance(n, b) + 1
    BY <2>2, <2>3, <2>6, <2>7, <2>8, Hosts DEF Way, Gate, Exit
  <2> QED
    BY <2>2, <2>9 DEF n
<1> QED
  BY <1>6, <1>7, <1>8

(* A process sends the message to one that is a hop nearer. *)
LEMMA Nearer ==
  ASSUME NEW a \in Process, NEW b \in Process, a # b, ~Errs(a, b)
  PROVE  /\ gaddr_next(a, b) \in Process
         /\ Distance(a, b) = Distance(gaddr_next(a, b), b) + 1
<1>1. a.path \in Path /\ b.path \in Path
  BY DEF Process
<1>2. IsPrefix(a.path, b.path) <=> Agree(a.path, b.path, Len(a.path))
  BY <1>1, PrefixIs
<1>3. CASE a.path = b.path
  BY <1>3, PostHop DEF gaddr_next
<1>4. CASE a.path # b.path /\ IsPrefix(a.path, b.path)
  <2>1. a.host = "00"
    BY <1>4 DEF Errs, IsStrictPrefix
  <2> QED
    BY <1>2, <1>4, <2>1, DownHop DEF gaddr_next
<1>5. CASE a.path # b.path /\ ~IsPrefix(a.path, b.path)
  BY <1>2, <1>5, UpHop DEF gaddr_next
<1> QED
  BY <1>3, <1>4, <1>5

-----------------------------------------------------------------------------
(* The invariant *)

LEMMA RoutingInitially ==
  ASSUME RoutingAssumption, Init
  PROVE  RoutingInv
<1>1. Address \subseteq Process
  <2>1. Machine \subseteq Path
    BY DEF RoutingAssumption, Path
  <2> QED
    BY <2>1 DEF Address, Process, Host
<1>2. from \in Process /\ to \in Process /\ at \in Process /\ at # to /\ hops = 0 /\ from = at
  BY <1>1 DEF Init
<1>3. ShortestWay
  BY <1>2, DistanceType DEF ShortestWay
<1> QED
  BY <1>2, <1>3 DEF RoutingInv

LEMMA RoutingKept ==
  ASSUME RoutingInv, [Next]_vars
  PROVE  RoutingInv'
<1>1. CASE Hop
  <2> DEFINE n == gaddr_next(at, to)
  <2>1. /\ status = "way" /\ ~Errs(at, to) /\ at' = n /\ hops' = hops + 1
        /\ status' = (IF n = to THEN "there" ELSE "way") /\ UNCHANGED <<from, to>>
    BY <1>1 DEF Hop
  <2>2. from \in Process /\ to \in Process /\ at \in Process /\ hops \in Nat /\ at # to
    BY <2>1 DEF RoutingInv
  <2>3. n \in Process /\ Distance(at, to) = Distance(n, to) + 1
    BY <2>1, <2>2, Nearer
  <2> HIDE DEF n
  <2>4. Distance(n, to) \in Nat /\ Distance(from, to) \in Nat
    BY <2>2, <2>3, DistanceType
  <2>5. hops + Distance(at, to) = Distance(from, to)
    BY <2>1 DEF RoutingInv, ShortestWay
  <2>6. hops' + Distance(n, to) = Distance(from, to)
    BY <2>1, <2>2, <2>3, <2>4, <2>5
  <2>7. Distance(at, to)' = Distance(n, to) /\ Distance(from, to)' = Distance(from, to)
    BY <2>1
  <2>8. ShortestWay'
    BY <2>6, <2>7 DEF ShortestWay
  <2> QED
    BY <2>1, <2>2, <2>3, <2>8 DEF RoutingInv
<1>2. CASE Fail \/ GiveUp
  BY <1>2 DEF Fail, GiveUp, RoutingInv, ShortestWay
<1>3. CASE UNCHANGED vars
  <2>1. UNCHANGED <<from, to, at, status, hops>>
    BY <1>3 DEF vars
  <2>2. Distance(at, to)' = Distance(at, to) /\ Distance(from, to)' = Distance(from, to)
    BY <2>1
  <2> QED
    BY <2>1, <2>2 DEF RoutingInv, ShortestWay
<1> QED
  BY <1>1, <1>2, <1>3 DEF Next

(* Hop by hop, with nothing but its own address, each process sends the      *)
(* message along the shortest way (gaddr-next, channels.ss), whatever the    *)
(* tree of machines: it never loops, and no route is longer than its ends    *)
(* require.                                                                  *)
THEOREM NoDetour == Spec => []ShortestWay
<1>1. RoutingAssumption /\ Init => RoutingInv
  BY RoutingInitially
<1>2. RoutingInv /\ [Next]_vars => RoutingInv'
  BY RoutingKept
<1>3. RoutingInv => ShortestWay
  BY DEF RoutingInv
<1> QED
  BY <1>1, <1>2, <1>3, RoutingAssumption, PTL DEF Spec

=============================================================================

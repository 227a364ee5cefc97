------------------------------ MODULE RfLogProofs ------------------------------
(***************************************************************************)
(* The RF log for every length of its lines, its cap and its copy's        *)
(* chunks, over failures, crashes and the controller's Clear.              *)
(***************************************************************************)
EXTENDS RfLog, SequenceTheorems, TLAPS

(* Most leaves rewrite equalities and split sets: Zenon takes them, and SMT *)
(* is cited where a leaf counts, or reasons about sequences.                *)
USE Zenon

(* The cells of a file are lines up to n, in order. *)
Ordered(f, n) ==
    /\ f \in Seq(Nat)
    /\ \A i \in 1 .. Len(f) : f[i] \in 1 .. n /\ (i > 1 => f[i - 1] <= f[i])

Calls == {"closed", "idle", "copy_open", "copy", "truncate", "write"}

Typed ==
    /\ pc \in Calls
    /\ off \in Nat /\ line \in 0 .. MaxLines /\ left \in 0 .. LineLen
    /\ pc \notin {"closed", "idle"} => line > 0
    /\ whole \subseteq 1 .. line /\ overgrown \in BOOLEAN
    /\ Ordered(live, line) /\ Ordered(prev, line) /\ Ordered(segment, line)

(* There is room for the rest of the line, unless a rollover failed. *)
RoomLeft ==
    ~overgrown => /\ Len(live) <= MaxBytes
                  /\ pc = "write" => Len(live) + left <= MaxBytes

(* What was copied so far is the beginning of the live file, unless Clear   *)
(* emptied that meanwhile.                                                  *)
CopyIsPrefix ==
    live # <<>> =>
        /\ pc = "copy" => off <= Len(live) /\ prev = SubSeq(live, 1, off)
        /\ pc = "truncate" => prev = live

(* <path>.1 is older than the live file, or a copy of some of it. *)
PrevIsOlder ==
    \A p \in ToSet(prev) : p \in ToSet(live) \/ \A m \in ToSet(live) : p <= m

LogInv == Typed /\ RoomLeft /\ CopyIsPrefix /\ PrevIsOlder /\ KeptIsSuffix

(* The lines a file has cells of. *)
LEMMA Cells == ASSUME NEW f \in Seq(Nat) PROVE ToSet(f) = {f[i] : i \in 1 .. Len(f)}
  BY SMT DEF ToSet

(* The empty file. *)
LEMMA EmptyOrdered == (\A n : Ordered(<<>>, n)) /\ ToSet(<<>>) = {} /\ Len(<<>>) = 0
  <1>1. <<>> \in Seq(Nat) /\ Len(<<>>) = 0
    BY SMT
  <1>2. ToSet(<<>>) = {<<>>[i] : i \in 1 .. 0}
    BY <1>1, Cells
  <1>. QED  BY SMT, <1>1, <1>2 DEF Ordered

(* An ordered file has cells of the lines so far only. *)
LEMMA OrderedCells ==
    ASSUME NEW f, NEW n, Ordered(f, n) PROVE ToSet(f) \subseteq 1 .. n
  BY SMT, Cells DEF Ordered

(* The newest line goes to the end of the live file. *)
LEMMA AppendLine ==
    ASSUME NEW l \in Nat \ {0}, NEW f, Ordered(f, l), NEW k \in Nat \ {0}
    PROVE  LET g == f \o [i \in 1 .. k |-> l] IN
           /\ Ordered(g, l) /\ Len(g) = Len(f) + k
           /\ ToSet(g) = ToSet(f) \cup {l}
  <1>. DEFINE t == [i \in 1 .. k |-> l]
              g == f \o t
  <1>1. t \in Seq(Nat) /\ Len(t) = k /\ f \in Seq(Nat) /\ \A i \in 1 .. k : t[i] = l
    BY SMT DEF Ordered
  <1>. HIDE DEF t
  <1>2. /\ g \in Seq(Nat) /\ Len(g) = Len(f) + k
        /\ \A i \in 1 .. Len(g) : g[i] = IF i <= Len(f) THEN f[i] ELSE l
    BY SMT, <1>1
  <1>. HIDE DEF g
  <1>3. Len(f) \in Nat
    BY SMT, <1>1
  <1>4. Ordered(g, l)
    <2>0. \A i \in 1 .. Len(f) : f[i] \in 1 .. l /\ (i > 1 => f[i - 1] <= f[i])
      BY DEF Ordered
    <2>1. ASSUME NEW i \in 1 .. Len(g) PROVE g[i] \in 1 .. l
      <3>1. CASE i <= Len(f)
        <4>1. i \in 1 .. Len(f) /\ g[i] = f[i]
          BY SMT, <3>1, <1>2, <1>3
        <4>. QED  BY <4>1, <2>0
      <3>2. CASE ~(i <= Len(f))
        <4>1. g[i] = l
          BY <3>2, <1>2
        <4>. QED  BY SMT, <4>1
      <3>. QED  BY <3>1, <3>2
    <2>2. ASSUME NEW i \in 1 .. Len(g), i > 1 PROVE g[i - 1] <= g[i]
      <3>1. i \in Nat /\ i - 1 \in 1 .. Len(g)
        BY SMT, <2>2, <1>2, <1>3
      <3>2. CASE i <= Len(f)
        <4>1. g[i] = f[i] /\ i \in 1 .. Len(f) /\ i - 1 <= Len(f)
          BY SMTT(20), <3>1, <3>2, <1>2, <1>3
        <4>2. g[i - 1] = f[i - 1]
          BY <3>1, <4>1, <1>2
        <4>. QED  BY <4>1, <4>2, <2>0, <2>2
      <3>3. CASE ~(i <= Len(f))
        <4>1. g[i] = l
          BY <3>3, <1>2
        <4>2. g[i - 1] \in 1 .. l
          BY <3>1, <2>1
        <4>. QED  BY SMTT(20), <4>1, <4>2
      <3>. QED  BY <3>2, <3>3
    <2>. QED  BY <2>1, <2>2, <1>2 DEF Ordered
  <1>5. ToSet(g) = ToSet(f) \cup {l}
    <2>1. ToSet(g) = {g[i] : i \in 1 .. Len(g)} /\ ToSet(f) = {f[i] : i \in 1 .. Len(f)}
      BY <1>1, <1>2, Cells
    <2>2. \A x \in ToSet(g) : x \in ToSet(f) \cup {l}
      BY SMT, <1>2, <1>3, <2>1
    <2>3. \A x \in ToSet(f) : x \in ToSet(g)
      BY SMTT(20), <1>2, <1>3, <2>1
    <2>4. l \in ToSet(g)
      <3>. DEFINE n == Len(f) + 1
      <3>1. n \in Nat /\ 1 <= n /\ n <= Len(f) + k /\ ~(n <= Len(f))
        BY SMT, <1>3
      <3>. HIDE DEF n
      <3>2. n \in 1 .. Len(g)
        BY SMT, <3>1, <1>2, <1>3
      <3>3. g[n] = l
        BY <3>1, <3>2, <1>2
      <3>. QED  BY <3>2, <3>3, <2>1
    <2>. QED  BY <2>2, <2>3, <2>4
  <1>. QED  BY <1>2, <1>4, <1>5 DEF g, t

(* A prefix of an ordered file is ordered and holds cells of it. *)
LEMMA PrefixOrdered ==
    ASSUME NEW l, NEW f, Ordered(f, l), NEW n \in 0 .. Len(f)
    PROVE  Ordered(SubSeq(f, 1, n), l) /\ ToSet(SubSeq(f, 1, n)) \subseteq ToSet(f)
  <1>. DEFINE g == SubSeq(f, 1, n)
  <1>1. f \in Seq(Nat) /\ Len(f) \in Nat
    BY SMT DEF Ordered
  <1>2. g \in Seq(Nat) /\ Len(g) = n /\ \A i \in 1 .. n : g[i] = f[i]
    BY SMT, <1>1
  <1>. HIDE DEF g
  <1>3. Ordered(g, l)
    <2>1. ASSUME NEW i \in 1 .. Len(g)
          PROVE  g[i] = f[i] /\ i \in 1 .. Len(f) /\ (i > 1 => g[i - 1] = f[i - 1])
      BY SMT, <1>1, <1>2
    <2>. QED  BY <2>1, <1>2 DEF Ordered
  <1>4. ToSet(g) \subseteq ToSet(f)
    BY SMTT(20), <1>1, <1>2, Cells
  <1>. QED  BY <1>3, <1>4 DEF g

(* A chunk of the copy extends the prefix. *)
LEMMA ChunkExtends ==
    ASSUME NEW f \in Seq(Nat), NEW n \in 0 .. Len(f), NEW k \in Nat, n + k <= Len(f)
    PROVE  SubSeq(f, 1, n) \o SubSeq(f, n + 1, n + k) = SubSeq(f, 1, n + k)
  <1>. DEFINE a == SubSeq(f, 1, n)
              b == SubSeq(f, n + 1, n + k)
              c == SubSeq(f, 1, n + k)
  <1>1. Len(f) \in Nat /\ n \in Nat /\ n <= Len(f)
    BY SMT
  <1>2. a \in Seq(Nat) /\ Len(a) = n /\ \A i \in 1 .. n : a[i] = f[i]
    BY SMT, <1>1
  <1>3. b \in Seq(Nat) /\ Len(b) = k /\ \A i \in 1 .. k : b[i] = f[n + i]
    BY SMT, <1>1
  <1>4. c \in Seq(Nat) /\ Len(c) = n + k /\ \A i \in 1 .. n + k : c[i] = f[i]
    BY SMT, <1>1
  <1>. HIDE DEF a, b, c
  <1>5. /\ a \o b \in Seq(Nat) /\ Len(a \o b) = n + k
        /\ \A i \in 1 .. n + k : (a \o b)[i] = IF i <= n THEN a[i] ELSE b[i - n]
    BY ZenonT(30), <1>2, <1>3, ConcatProperties
  <1>6. \A i \in 1 .. n + k : (a \o b)[i] = c[i]
    <2>. TAKE i \in 1 .. n + k
    <2>1. CASE i <= n
      <3>1. i \in 1 .. n
        BY SMT, <2>1, <1>1
      <3>2. (a \o b)[i] = a[i]
        BY <2>1, <1>5
      <3>. QED  BY <3>1, <3>2, <1>2, <1>4
    <2>2. CASE ~(i <= n)
      <3>1. i - n \in 1 .. k /\ n + (i - n) = i
        BY SMT, <2>2, <1>1
      <3>2. (a \o b)[i] = b[i - n]
        BY <2>2, <1>5
      <3>. QED  BY <3>1, <3>2, <1>3, <1>4
    <2>. QED  BY <2>1, <2>2
  <1>7. a \o b = c
    BY <1>4, <1>5, <1>6, SeqEqual
  <1>. QED  BY <1>7 DEF a, b, c
-------------------------------------------------------------------------------
(* The steps.  LogInv asks nothing of hist but that lines are counted. *)

(* A further line leaves the order as it is. *)
LEMMA OrderedKept ==
    ASSUME NEW f, NEW l \in Nat, NEW m \in Nat, Ordered(f, l), l <= m
    PROVE  Ordered(f, m)
  BY SMT DEF Ordered

(* Two empty files. *)
LEMMA InitLog == Init => LogInv
  <1>. SUFFICES ASSUME Init PROVE LogInv
    OBVIOUS
  <1>1. live = <<>> /\ prev = <<>> /\ segment = <<>> /\ whole = {} /\ line = 0
    BY DEF Init
  <1>2. /\ Ordered(live, line) /\ Ordered(prev, line) /\ Ordered(segment, line)
        /\ ToSet(live) = {} /\ ToSet(prev) = {} /\ Len(live) = 0
    BY <1>1, EmptyOrdered
  <1>3. Typed
    <2>1. /\ 0 \in Nat /\ line \in 0 .. MaxLines /\ left \in 0 .. LineLen
          /\ whole \subseteq 1 .. line
      BY SMT, RfLogAssumption DEF Init
    <2>. QED  BY <1>2, <2>1 DEF Init, Typed, Calls
  <1>4. RoomLeft /\ CopyIsPrefix /\ PrevIsOlder /\ KeptIsSuffix
    BY SMT, <1>1, <1>2, RfLogAssumption
       DEF Init, RoomLeft, CopyIsPrefix, PrevIsOlder, KeptIsSuffix
  <1>. QED  BY <1>3, <1>4 DEF LogInv

(* open, close and a crash touch neither file. *)
LEMMA RestStep ==
    ASSUME LogInv, UNCHANGED <<files, off, line, left, whole, overgrown>>,
           pc' \in {"closed", "idle"}, segment' \in {segment, prev}
    PROVE  LogInv'
  <1>1. Typed'
    BY DEF LogInv, Typed, Calls, files
  <1>2. RoomLeft' /\ CopyIsPrefix' /\ PrevIsOlder' /\ KeptIsSuffix'
    BY DEF LogInv, RoomLeft, CopyIsPrefix, PrevIsOlder, KeptIsSuffix, files
  <1>. QED  BY <1>1, <1>2 DEF LogInv

(* write_line decides whether the line still fits. *)
LEMMA WriteLineStep == ASSUME LogInv, write_line PROVE LogInv'
  <1>1. /\ line \in 0 .. MaxLines /\ Len(live) \in Nat /\ overgrown \in BOOLEAN
        /\ Ordered(live, line) /\ Ordered(prev, line) /\ Ordered(segment, line)
        /\ whole \subseteq 1 .. line
    BY SMT DEF LogInv, Typed, Ordered
  <1>2. line' = line + 1 /\ line' \in 0 .. MaxLines /\ UNCHANGED <<files, off, whole, segment>>
    BY SMT, <1>1, RfLogAssumption DEF write_line
  <1>3. Ordered(live, line)' /\ Ordered(prev, line)' /\ Ordered(segment, line)'
    BY SMTT(20), <1>1, <1>2, OrderedKept, RfLogAssumption DEF files
  <1>4. pc' \in {"copy_open", "write"} /\ left' = LineLen /\ left' \in 0 .. LineLen
    BY SMT, RfLogAssumption DEF write_line
  <1>5. overgrown' \in BOOLEAN
    BY <1>1 DEF write_line
  <1>6. whole' \subseteq 1 .. line'
    BY SMT, <1>1, <1>2
  <1>7. Typed'
    BY SMTT(20), <1>2, <1>3, <1>4, <1>5, <1>6 DEF LogInv, Typed, Calls
  <1>8. RoomLeft'
    <2>. SUFFICES ASSUME ~overgrown'
                  PROVE  /\ Len(live') <= MaxBytes
                         /\ pc' = "write" => Len(live') + left' <= MaxBytes
      BY DEF RoomLeft
    <2>1. ~overgrown /\ (pc' = "write" => ~NeedsRoll)
      BY <1>1 DEF write_line
    <2>2. Len(live) <= MaxBytes
      BY <2>1 DEF LogInv, RoomLeft
    <2>3. ~NeedsRoll => Len(live) + LineLen <= MaxBytes
      BY SMT, <1>1, RfLogAssumption DEF NeedsRoll
    <2>. QED  BY <1>2, <1>4, <2>1, <2>2, <2>3 DEF files
  <1>9. CopyIsPrefix' /\ PrevIsOlder' /\ KeptIsSuffix'
    BY <1>2, <1>4 DEF LogInv, CopyIsPrefix, PrevIsOlder, KeptIsSuffix, files
  <1>. QED  BY <1>7, <1>8, <1>9 DEF LogInv

(* A rollover that fails leaves what the files hold. *)
LEMMA FailedStep ==
    ASSUME LogInv, pc \notin {"closed", "idle"}, CopyFails,
           UNCHANGED <<files, off, line, left, whole, segment>>
    PROVE  LogInv'
  <1>1. Typed'
    BY DEF LogInv, Typed, Calls, files, CopyFails
  <1>2. RoomLeft' /\ CopyIsPrefix' /\ PrevIsOlder' /\ KeptIsSuffix'
    BY DEF LogInv, RoomLeft, CopyIsPrefix, PrevIsOlder, KeptIsSuffix, files, CopyFails
  <1>. QED  BY <1>1, <1>2 DEF LogInv

(* Opening <path>.1 drops lines that are older than the live file, or that  *)
(* the live file still has.                                                 *)
LEMMA OpenPreviousStep == ASSUME LogInv, OpenPrevious PROVE LogInv'
  <1>1. CASE prev' = <<>> /\ off' = 0 /\ pc' = "copy" /\ UNCHANGED overgrown
    <2>1. UNCHANGED <<live, line, left, whole, segment>> /\ pc = "copy_open" /\ 0 \in Nat
      BY DEF OpenPrevious
    <2>2. Ordered(prev', line') /\ ToSet(prev') = {}
      BY <1>1, EmptyOrdered
    <2>3. Typed'
      BY <1>1, <2>1, <2>2 DEF LogInv, Typed, Calls
    <2>4. RoomLeft' /\ PrevIsOlder'
      BY <1>1, <2>1, <2>2 DEF LogInv, RoomLeft, PrevIsOlder
    <2>5. CopyIsPrefix'
      <3>1. live \in Seq(Nat)
        BY DEF LogInv, Typed, Ordered
      <3>2. SubSeq(live, 1, 0) = <<>> /\ 0 <= Len(live)
        BY SMT, <3>1, SubSeqEmpty, LenProperties
      <3>. QED  BY <1>1, <2>1, <3>2 DEF CopyIsPrefix
    <2>6. KeptIsSuffix'
      <3>. SUFFICES ASSUME NEW l \in whole, NEW m \in ToSet(live), l >= m
                    PROVE  l \in ToSet(live)
        BY <2>1, <2>2 DEF KeptIsSuffix
      <3>1. l \in ToSet(live) \cup ToSet(prev)
        BY DEF LogInv, KeptIsSuffix
      <3>2. ASSUME l \in ToSet(prev), l \notin ToSet(live) PROVE FALSE
        <4>1. l <= m
          BY <3>2 DEF LogInv, PrevIsOlder
        <4>2. l \in Nat /\ m \in Nat
          BY SMT, OrderedCells, RfLogAssumption DEF LogInv, Typed
        <4>. QED  BY SMTT(20), <4>1, <4>2, <3>2
      <3>. QED  BY <3>1, <3>2
    <2>. QED  BY <2>3, <2>4, <2>5, <2>6 DEF LogInv
  <1>2. CASE CopyFails /\ UNCHANGED <<prev, off>>
    BY <1>2, FailedStep DEF OpenPrevious, files
  <1>. QED  BY <1>1, <1>2 DEF OpenPrevious

(* A chunk extends the copy, and adds no line that was not in the files. *)
LEMMA ChunkStep ==
    ASSUME LogInv, pc = "copy", off < Len(live), NEW k \in Nat, off + k <= Len(live),
           prev' = prev \o SubSeq(live, off + 1, off + k),
           UNCHANGED <<live, line, left, whole, segment>>,
           \/ off' = off + k /\ UNCHANGED <<pc, overgrown>>
           \/ CopyFails /\ UNCHANGED off
    PROVE  LogInv'
  <1>1. /\ live \in Seq(Nat) /\ Len(live) \in Nat /\ off \in Nat
        /\ Ordered(live, line)
    BY SMT DEF LogInv, Typed, Ordered
  <1>2. live # <<>>
    BY SMT, <1>1
  <1>3. prev = SubSeq(live, 1, off)
    BY <1>2 DEF LogInv, CopyIsPrefix
  <1>4. prev' = SubSeq(live, 1, off + k)
    <2>1. off \in 0 .. Len(live)
      BY SMT, <1>1
    <2>2. SubSeq(live, 1, off) \o SubSeq(live, off + 1, off + k) = SubSeq(live, 1, off + k)
      BY <1>1, <2>1, ChunkExtends
    <2>. QED  BY <1>3, <2>2
  <1>5. off + k \in 0 .. Len(live)
    BY SMT, <1>1
  <1>6. Ordered(prev', line) /\ ToSet(prev') \subseteq ToSet(live)
    BY <1>1, <1>4, <1>5, PrefixOrdered
  <1>7. Typed'
    <2>1. off' \in Nat
      BY SMT, <1>1
    <2>2. pc' \in Calls /\ overgrown' \in BOOLEAN
      BY DEF LogInv, Typed, Calls, CopyFails
    <2>. QED  BY <1>6, <2>1, <2>2 DEF LogInv, Typed
  <1>8. RoomLeft'
    BY DEF LogInv, RoomLeft, CopyFails
  <1>9. CopyIsPrefix'
    BY <1>1, <1>4, <1>5 DEF CopyIsPrefix, CopyFails
  <1>10. PrevIsOlder'
    BY <1>6 DEF PrevIsOlder
  <1>11. KeptIsSuffix'
    <2>1. ToSet(prev) \subseteq ToSet(live)
      <3>1. off \in 0 .. Len(live)
        BY SMT, <1>1
      <3>. QED  BY <1>1, <1>3, <3>1, PrefixOrdered
    <2>. QED  BY <1>6, <2>1 DEF LogInv, KeptIsSuffix
  <1>. QED  BY <1>7, <1>8, <1>9, <1>10, <1>11 DEF LogInv

(* One turn of the copy loop of roll. *)
LEMMA CopyChunkStep == ASSUME LogInv, CopyChunk PROVE LogInv'
  <1>. DEFINE n == IF off + ChunkLen < Len(live) THEN ChunkLen ELSE Len(live) - off
  <1>1. /\ pc = "copy" /\ off < Len(live) /\ UNCHANGED <<live, line, left, whole, segment>>
        /\ off \in Nat /\ Len(live) \in Nat
    BY SMT DEF CopyChunk, LogInv, Typed, Ordered
  <1>2. n \in Nat /\ off + n <= Len(live)
    BY SMT, <1>1, RfLogAssumption
  <1>3. \/ /\ prev' = prev \o SubSeq(live, off + 1, off + n)
           /\ off' = off + n /\ UNCHANGED <<pc, overgrown>>
        \/ /\ \E k \in 0 .. n - 1 : prev' = prev \o SubSeq(live, off + 1, off + k)
           /\ CopyFails /\ UNCHANGED off
    BY DEF CopyChunk
  <1>. HIDE DEF n
  <1>4. CASE /\ prev' = prev \o SubSeq(live, off + 1, off + n)
             /\ off' = off + n /\ UNCHANGED <<pc, overgrown>>
    BY <1>1, <1>2, <1>4, ChunkStep
  <1>5. CASE /\ \E k \in 0 .. n - 1 : prev' = prev \o SubSeq(live, off + 1, off + k)
             /\ CopyFails /\ UNCHANGED off
    <2>1. PICK k \in 0 .. n - 1 : prev' = prev \o SubSeq(live, off + 1, off + k)
      BY <1>5
    <2>2. k \in Nat /\ off + k <= Len(live)
      BY SMT, <1>1, <1>2
    <2>. QED  BY <1>1, <1>5, <2>1, <2>2, ChunkStep
  <1>. QED  BY <1>3, <1>4, <1>5

(* The copy ends, at the end of the live file or in an error. *)
LEMMA CopyEndsStep == ASSUME LogInv, CopyEnds PROVE LogInv'
  <1>1. CASE pc' = "truncate" /\ segment' = prev /\ UNCHANGED overgrown
    <2>1. UNCHANGED <<files, off, line, left, whole>> /\ pc = "copy" /\ off >= Len(live)
      BY DEF CopyEnds
    <2>2. Typed'
      BY <1>1, <2>1 DEF LogInv, Typed, Calls, files
    <2>3. RoomLeft' /\ PrevIsOlder' /\ KeptIsSuffix'
      BY <1>1, <2>1 DEF LogInv, RoomLeft, PrevIsOlder, KeptIsSuffix, files
    <2>4. live # <<>> => prev = live
      <3>1. live \in Seq(Nat) /\ off \in Nat /\ Len(live) \in Nat
        BY SMT DEF LogInv, Typed, Ordered
      <3>2. live # <<>> => off = Len(live) /\ prev = SubSeq(live, 1, off)
        BY SMT, <2>1, <3>1 DEF LogInv, CopyIsPrefix
      <3>. QED  BY <3>1, <3>2, SubSeqFull
    <2>5. CopyIsPrefix'
      BY <1>1, <2>1, <2>4 DEF CopyIsPrefix, files
    <2>. QED  BY <2>2, <2>3, <2>5 DEF LogInv
  <1>2. CASE CopyFails /\ UNCHANGED segment
    BY <1>2, FailedStep DEF CopyEnds, files
  <1>. QED  BY <1>1, <1>2 DEF CopyEnds

(* An empty live file has room for any line. *)
LEMMA EmptiedTyped ==
    ASSUME LogInv, live' = <<>>, overgrown' = FALSE, UNCHANGED <<prev, off, line, left, segment>>,
           whole' \subseteq whole, pc' = pc \/ (pc' = "write" /\ pc = "truncate")
    PROVE  Typed' /\ RoomLeft' /\ CopyIsPrefix' /\ PrevIsOlder' /\ ToSet(live') = {}
  <1>1. Ordered(live', line') /\ ToSet(live') = {} /\ Len(live') = 0
    BY EmptyOrdered
  <1>2. Typed'
    BY <1>1 DEF LogInv, Typed, Calls
  <1>3. left \in Nat /\ left <= MaxBytes
    BY SMT, RfLogAssumption DEF LogInv, Typed
  <1>4. RoomLeft'
    BY SMT, <1>1, <1>3, RfLogAssumption DEF RoomLeft
  <1>. QED  BY <1>1, <1>2, <1>4 DEF CopyIsPrefix, PrevIsOlder

(* The live file is emptied once <path>.1 is a full copy of it. *)
LEMMA TruncateStep == ASSUME LogInv, Truncate PROVE LogInv'
  <1>1. pc' = "write" /\ UNCHANGED <<prev, off, line, left, whole, segment>> /\ pc = "truncate"
    BY DEF Truncate
  <1>2. CASE live' = <<>> /\ overgrown' = FALSE
    <2>1. Typed' /\ RoomLeft' /\ CopyIsPrefix' /\ PrevIsOlder' /\ ToSet(live') = {}
      BY <1>1, <1>2, EmptiedTyped
    <2>2. ToSet(live) = ToSet(prev) \/ ToSet(live) = {}
      BY <1>1, EmptyOrdered DEF LogInv, CopyIsPrefix
    <2>3. KeptIsSuffix'
      BY <1>1, <2>1, <2>2 DEF LogInv, KeptIsSuffix
    <2>. QED  BY <2>1, <2>3 DEF LogInv
  <1>3. CASE UNCHANGED live /\ overgrown' = TRUE
    BY <1>1, <1>3, FailedStep DEF CopyFails, files
  <1>. QED  BY <1>2, <1>3 DEF Truncate

(* The controller empties the live file, at any point. *)
LEMMA ClearStep == ASSUME LogInv, Clear PROVE LogInv'
  <1>1. /\ Typed' /\ RoomLeft' /\ CopyIsPrefix' /\ PrevIsOlder' /\ ToSet(live') = {}
    BY EmptiedTyped DEF Clear, LogInv, Typed
  <1>2. KeptIsSuffix'
    BY <1>1 DEF LogInv, KeptIsSuffix, Clear
  <1>. QED  BY <1>1, <1>2 DEF LogInv

(* write_all takes some of the rest of the line. *)
LEMMA WriteSomeStep == ASSUME LogInv, WriteSome PROVE LogInv'
  <1>1. /\ pc = "write" /\ UNCHANGED <<prev, off, line, overgrown, segment>>
        /\ line \in Nat /\ whole \subseteq 1 .. line /\ left \in 0 .. LineLen
        /\ Ordered(live, line) /\ Len(live) \in Nat
    BY SMT, RfLogAssumption DEF WriteSome, LogInv, Typed, Ordered
  <1>2. CASE left' = 0 /\ pc' = "idle" /\ UNCHANGED <<live, whole>>
    <2>1. left' \in 0 .. LineLen
      BY SMTT(20), <1>2, RfLogAssumption
    <2>2. Typed'
      BY <1>1, <1>2, <2>1 DEF LogInv, Typed, Calls
    <2>3. RoomLeft' /\ CopyIsPrefix' /\ PrevIsOlder' /\ KeptIsSuffix'
      BY <1>1, <1>2 DEF LogInv, RoomLeft, CopyIsPrefix, PrevIsOlder, KeptIsSuffix
    <2>. QED  BY <2>2, <2>3 DEF LogInv
  <1>3. CASE \E k \in 1 .. left :
                /\ live' = live \o [i \in 1 .. k |-> line]
                /\ left' = left - k /\ pc' \in {"idle", "write"}
                /\ whole' \subseteq whole \cup {line}
    <2>1. PICK k \in 1 .. left :
             /\ live' = live \o [i \in 1 .. k |-> line]
             /\ left' = left - k /\ pc' \in {"idle", "write"}
             /\ whole' \subseteq whole \cup {line}
      BY <1>3
    <2>2. k \in Nat \ {0} /\ left' \in 0 .. LineLen /\ LineLen \in Nat
      BY SMTT(20), <1>1, <2>1, RfLogAssumption
    <2>3. line \in Nat \ {0}
      BY SMT, <1>1 DEF LogInv, Typed
    <2>4. /\ Ordered(live', line) /\ Len(live') = Len(live) + k
          /\ ToSet(live') = ToSet(live) \cup {line}
      BY <1>1, <2>1, <2>2, <2>3, AppendLine
    <2>5. Typed'
      BY SMTT(20), <1>1, <2>1, <2>2, <2>3, <2>4 DEF LogInv, Typed, Calls
    <2>6. RoomLeft'
      BY SMTT(20), <1>1, <2>1, <2>2, <2>4, RfLogAssumption DEF LogInv, RoomLeft
    <2>7. CopyIsPrefix'
      BY <2>1 DEF CopyIsPrefix
    <2>8. PrevIsOlder'
      <3>1. \A p \in ToSet(prev) : p <= line
        BY SMT, <1>1, OrderedCells DEF LogInv, Typed
      <3>. QED  BY <1>1, <2>4, <3>1 DEF LogInv, PrevIsOlder
    <2>9. KeptIsSuffix'
      <3>. SUFFICES ASSUME NEW l \in whole', NEW m \in ToSet(live') \cup ToSet(prev), l >= m
                    PROVE  l \in ToSet(live') \cup ToSet(prev)
        BY <1>1 DEF KeptIsSuffix
      <3>1. CASE l = line
        BY <3>1, <2>4
      <3>2. CASE l \in whole /\ l # line
        <4>1. l \in Nat /\ l < line
          BY SMTT(20), <1>1, <3>2
        <4>2. m # line
          BY SMT, <4>1, <1>1
        <4>. QED  BY <2>4, <3>2, <4>2 DEF LogInv, KeptIsSuffix
      <3>. QED  BY <2>1, <3>1, <3>2
    <2>. QED  BY <2>5, <2>6, <2>7, <2>8, <2>9 DEF LogInv
  <1>. QED  BY <1>2, <1>3 DEF WriteSome

(* Every step of the log keeps LogInv. *)
LEMMA LogStep == ASSUME LogInv, Next PROVE LogInv'
  <1>1. CASE open \/ close \/ Crash
    BY <1>1, RestStep DEF open, close, Crash, files, hist
  <1>2. CASE write_line \/ WriteSome \/ Clear
    BY <1>2, WriteLineStep, WriteSomeStep, ClearStep
  <1>3. CASE OpenPrevious \/ CopyChunk \/ CopyEnds \/ Truncate
    BY <1>3, OpenPreviousStep, CopyChunkStep, CopyEndsStep, TruncateStep
  <1>. QED  BY <1>1, <1>2, <1>3 DEF Next

(* So does a step that leaves the log alone. *)
LEMMA LogStutter == ASSUME LogInv, UNCHANGED vars PROVE LogInv'
  BY DEF vars, files, hist, LogInv, Typed, RoomLeft, CopyIsPrefix, PrevIsOlder, KeptIsSuffix

(* LogInv is an invariant of the log, over every failure of write_line and roll. *)
THEOREM LogInvariant == Spec => []LogInv
  <1>1. LogInv /\ [Next]_vars => LogInv'
    BY LogStep, LogStutter
  <1>. QED  BY <1>1, InitLog, PTL DEF Spec

(* Both files always hold cells of lines that were written, in order. *)
THEOREM LogTyped == Spec => []RfLogTypeOK
  <1>1. LogInv => RfLogTypeOK
    <2>. SUFFICES ASSUME LogInv PROVE RfLogTypeOK
      OBVIOUS
    <2>1. \A f \in {live, prev, segment} : \A i \in 1 .. Len(f) :
             f[i] \in 1 .. line /\ (i > 1 => f[i - 1] <= f[i])
      BY DEF LogInv, Typed, Ordered
    <2>2. line \in 0 .. MaxLines /\ whole \subseteq 1 .. line
      BY DEF LogInv, Typed
    <2>3. whole \subseteq 1 .. MaxLines
      BY SMTT(20), <2>2, RfLogAssumption
    <2>. QED  BY <2>1, <2>2, <2>3 DEF LogInv, Typed, Calls, RfLogTypeOK
  <1>. QED  BY <1>1, LogInvariant, PTL

(* Without a failed rollover the live file never exceeds its cap. *)
THEOREM LogCapped == Spec => []CapKept
  <1>1. LogInv => CapKept
    BY DEF LogInv, RoomLeft, CapKept
  <1>. QED  BY <1>1, LogInvariant, PTL

(* Only the oldest lines are ever dropped. *)
THEOREM OldestDropped == Spec => []KeptIsSuffix
  <1>1. LogInv => KeptIsSuffix
    BY DEF LogInv
  <1>. QED  BY <1>1, LogInvariant, PTL

(* The live file is truncated only when all of it was copied. *)
THEOREM NothingLostByRoll == Spec => RollKeepsLines
  <1>1. ASSUME LogInv, [Next]_vars, live # <<>>, live' = <<>> PROVE Clear \/ prev = live
    <2>1. live' # live
      BY <1>1
    <2>2. live \in Seq(Nat)
      BY <1>1 DEF LogInv, Typed, Ordered
    <2>3. ~(open \/ close \/ Crash \/ write_line \/ OpenPrevious \/ CopyChunk \/ CopyEnds)
      BY <2>1 DEF open, close, Crash, write_line, OpenPrevious, CopyChunk, CopyEnds, files
    <2>4. CASE Truncate
      BY <1>1, <2>4 DEF Truncate, LogInv, CopyIsPrefix
    <2>5. CASE WriteSome
      <3>1. PICK k \in 1 .. left : live' = live \o [i \in 1 .. k |-> line]
        BY <2>1, <2>5 DEF WriteSome
      <3>2. line \in Nat \ {0} /\ k \in Nat \ {0}
        BY SMTT(20), <1>1, <2>5, RfLogAssumption DEF LogInv, Typed, WriteSome
      <3>3. Len(live') = Len(live) + k
        BY SMTT(20), <1>1, <3>1, <3>2, AppendLine DEF LogInv, Typed
      <3>. QED  BY SMTT(20), <1>1, <2>2, <3>2, <3>3
    <2>. QED  BY <1>1, <2>1, <2>3, <2>4, <2>5 DEF Next, vars, files
  <1>2. LogInv /\ [Next]_vars =>
           [live # <<>> /\ live' = <<>> => Clear \/ prev = live]_vars
    BY <1>1
  <1>. QED  BY <1>2, LogInvariant, PTL DEF Spec, RollKeepsLines
===============================================================================

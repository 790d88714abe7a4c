------------------------ MODULE DaemonClientsProofs ------------------------
(***************************************************************************)
(* The object store's reads for any number of callers, sizes, versions and *)
(* requests: what a read returns is what was asked.                        *)
(***************************************************************************)
EXTENDS DaemonClients, TLAPS

(* Shapes of requests and replies.                                         *)
ReplyRecs ==
  [len : Nat, form : {"error", "code", "garbage", "data", "stat", "jws"},
   code : {None, "ACCESS_DENIED", "RANGE_ERROR", "jws", "empty"},
   n : Nat \cup {None}, payload : Seq(Nat \X Nat)]

CallRecs ==
  [kind : {"read", "stat", "sign"}, asked : Ranges \cup {None}, offset : Nat, length : Nat,
   phase : {"sent", "answered", "payload"}, since : Nat, reply : ReplyRecs \cup {None},
   want : Nat \cup {None}]

Shapes ==
  /\ versions \in Seq(Sizes) /\ Len(versions) >= 1
  /\ size \in Nat \cup {None}
  /\ call \in [Callers -> CallRecs \cup {None}]
  /\ DOMAIN done = Callers

(* The store is stat'ed once, and its size then stays.                     *)
OneStat ==
  \A c \in Callers : call[c] # None /\ call[c].kind = "stat" =>
    /\ size = None
    /\ \A d \in Callers : call[d] # None /\ call[d].kind = "stat" => d = c

(* A payload of the daemon: a run of one version's bytes from the offset   *)
(* asked for, cut short where the daemon died.                             *)
DataOf(q, v) ==
  LET n == Min({q.length, SaturatingSub(versions[v], q.offset)}) IN
  /\ q.reply.n = n \/ (q.reply.n = None /\ n = q.length)
  /\ \E sent \in 0 .. n : q.reply.payload = Bytes(v, q.offset, sent)

(* A read under way: its range, and the reply once there is one.           *)
Reading(q) ==
  /\ size # None
  /\ q.since \in 1 .. Len(versions)
  /\ q.asked \in Ranges
  /\ q.asked.kind = "Bounded" => q.asked.a <= q.asked.b
  /\ q.offset = Extent(q.asked)[1] /\ q.length = Extent(q.asked)[2]
  /\ q.phase # "sent" =>
       /\ q.reply.form \in {"error", "code", "garbage", "data"}
       /\ q.reply.form = "code" => q.reply.n = None /\ q.reply.payload = <<>>
       /\ q.reply.form = "data" => \E v \in q.since .. Len(versions) : DataOf(q, v)
  /\ q.phase = "payload" =>
       /\ q.reply.form \in {"code", "data"}
       /\ q.want = IF q.reply.n = None THEN q.length ELSE q.reply.n

CallOK(q) ==
  /\ q.kind = "read" => Reading(q)
  /\ q.phase = "payload" => q.kind = "read"
  /\ q.phase # "sent" => q.reply \in ReplyRecs

(* An answer was read from a version of the time of the request.           *)
Answered(d) ==
  \E v \in d.call.since .. d.until :
    LET m == Meant(d.call.asked, versions[v]) IN
    IF versions[v] = size
    THEN d.value = Bytes(v, m[1], m[2] - m[1])
    ELSE d.value = Bytes(v, d.call.offset, Len(d.value))

DoneOK(d) ==
  d.outcome = "Ok" /\ d.call.kind = "read" =>
    /\ size # None
    /\ d.call.since \in Nat \ {0} /\ d.until \in 1 .. Len(versions)
    /\ Answered(d)

Inv ==
  /\ Shapes
  /\ OneStat
  /\ \A c \in Callers : call[c] # None => CallOK(call[c])
  /\ \A c \in Callers : done[c] # None => DoneOK(done[c])

-----------------------------------------------------------------------------
(* Ranges and bytes.                                                       *)

LEMMA MinOfTwo == \A a, b \in Nat : Min({a, b}) = IF a <= b THEN a ELSE b
<1> SUFFICES ASSUME NEW a \in Nat, NEW b \in Nat PROVE Min({a, b}) = IF a <= b THEN a ELSE b
  OBVIOUS
<1>1. CASE a <= b
  <2>1. \A x \in {a, b} : (\A y \in {a, b} : x <= y) <=> x = a
    BY <1>1
  <2> QED
    BY <1>1, <2>1 DEF Min
<1>2. CASE ~ (a <= b)
  <2>1. \A x \in {a, b} : (\A y \in {a, b} : x <= y) <=> x = b
    BY <1>2
  <2> QED
    BY <1>2, <2>1 DEF Min
<1> QED
  BY <1>1, <1>2

LEMMA RangeFields ==
  ASSUME NEW r \in Ranges
  PROVE  r.kind \in {"Bounded", "Offset", "Suffix", "Full"} /\ r.a \in Nat /\ r.b \in Nat
<1>1. Top \in Nat
  <2>1. PICK m \in Sizes : \A n \in Sizes : n <= m
    BY DaemonConstants
  <2>2. \A n \in Sizes : m >= n
    BY <2>1, DaemonConstants
  <2>3. Max(Sizes) \in Sizes
    BY <2>2 DEF Max
  <2> QED
    BY <2>3, DaemonConstants DEF Top
<1>2. 0 .. Top \subseteq Nat /\ 0 .. Top + 1 \subseteq Nat
  BY <1>1
<1> QED
  BY <1>2 DEF Ranges, GetRange

LEMMA ByteRuns ==
  ASSUME NEW v \in Nat, NEW from \in Nat, NEW n \in Nat
  PROVE  Bytes(v, from, n) \in Seq(Nat \X Nat) /\ Len(Bytes(v, from, n)) = n
<1>1. \A i \in 1 .. n : <<v, from + i - 1>> \in Nat \X Nat
  OBVIOUS
<1> QED
  BY <1>1 DEF Bytes

LEMMA NoBytes == \A v, from : Bytes(v, from, 0) = <<>>
BY DEF Bytes

LEMMA ExtentOK ==
  ASSUME NEW r \in Ranges, size \in Nat, r.kind = "Bounded" => r.a <= r.b
  PROVE  Extent(r)[1] \in Nat /\ Extent(r)[2] \in Nat
<1>1. r.kind \in {"Bounded", "Offset", "Suffix", "Full"} /\ r.a \in Nat /\ r.b \in Nat
  BY RangeFields
<1>2. CASE r.kind = "Bounded"
  BY <1>1, <1>2 DEF Extent
<1>3. CASE r.kind = "Offset"
  BY <1>1, <1>3 DEF Extent, SaturatingSub
<1>4. CASE r.kind = "Suffix"
  BY <1>1, <1>4 DEF Extent, SaturatingSub
<1>5. CASE r.kind = "Full"
  BY <1>1, <1>5 DEF Extent
<1> QED
  BY <1>1, <1>2, <1>3, <1>4, <1>5

(* All that is there of the extent asked for is all that the range means.  *)
LEMMA ExtentIsMeant ==
  ASSUME NEW r \in Ranges, size \in Nat, r.kind = "Bounded" => r.a <= r.b,
         NEW v \in Nat, NEW n,
         n = Min({Extent(r)[2], SaturatingSub(size, Extent(r)[1])})
  PROVE  Bytes(v, Meant(r, size)[1], Meant(r, size)[2] - Meant(r, size)[1])
           = Bytes(v, Extent(r)[1], n)
<1> DEFINE off == Extent(r)[1]
           m == Meant(r, size)
<1>1. r.kind \in {"Bounded", "Offset", "Suffix", "Full"} /\ r.a \in Nat /\ r.b \in Nat
  BY RangeFields
<1>2. SaturatingSub(size, off) \in Nat
  BY ExtentOK DEF SaturatingSub
<1>3. n = IF Extent(r)[2] <= SaturatingSub(size, off) THEN Extent(r)[2] ELSE SaturatingSub(size, off)
  BY <1>2, ExtentOK, MinOfTwo
<1>4. /\ Min({r.a, size}) = IF r.a <= size THEN r.a ELSE size
      /\ Min({r.b, size}) = IF r.b <= size THEN r.b ELSE size
  BY <1>1, MinOfTwo
<1>5. m[2] - m[1] = n /\ (n = 0 \/ m[1] = off)
  <2>1. CASE r.kind = "Bounded"
    <3>1. off = r.a /\ Extent(r)[2] = r.b - r.a /\ m = <<Min({r.a, size}), Min({r.b, size})>>
      BY <2>1 DEF Extent, Meant
    <3>2. m[1] = Min({r.a, size}) /\ m[2] = Min({r.b, size})
      BY <3>1
    <3> HIDE DEF off, m
    <3>3. CASE r.a <= size
      BY <3>1, <3>2, <3>3, <2>1, <1>1, <1>3, <1>4 DEF SaturatingSub
    <3>4. CASE ~ (r.a <= size)
      BY <3>1, <3>2, <3>4, <2>1, <1>1, <1>3, <1>4 DEF SaturatingSub
    <3> QED
      BY <3>3, <3>4
  <2>2. CASE r.kind = "Offset"
    <3>1. off = r.a /\ Extent(r)[2] = SaturatingSub(size, r.a) /\ m = <<Min({r.a, size}), size>>
      BY <2>2 DEF Extent, Meant
    <3>2. m[1] = Min({r.a, size}) /\ m[2] = size
      BY <3>1
    <3>3. n = SaturatingSub(size, r.a)
      BY <3>1, <1>2, <1>3
    <3> HIDE DEF off, m
    <3>4. CASE size > r.a
      <4>1. n = size - r.a /\ m[1] = r.a
        BY <3>2, <3>3, <3>4, <1>1, <1>4 DEF SaturatingSub
      <4> QED
        BY <4>1, <3>1, <3>2
    <3>5. CASE ~ (size > r.a)
      <4>1. n = 0 /\ m[1] = size
        BY <3>2, <3>3, <3>5, <1>1, <1>4 DEF SaturatingSub
      <4>2. m[2] - m[1] = size - size
        BY <4>1, <3>2
      <4>3. size - size = 0
        OBVIOUS
      <4> QED
        BY <4>1, <4>2, <4>3
    <3> QED
      BY <3>4, <3>5
  <2>3. CASE r.kind = "Suffix"
    <3>1. off = SaturatingSub(size, r.a) /\ Extent(r)[2] = r.a /\ m = <<SaturatingSub(size, r.a), size>>
      BY <2>3 DEF Extent, Meant
    <3> HIDE DEF off, m
    <3> QED
      BY <3>1, <1>1, <1>3 DEF SaturatingSub
  <2>4. CASE r.kind = "Full"
    <3>1. off = 0 /\ Extent(r)[2] = size /\ m = <<0, size>>
      BY <2>4 DEF Extent, Meant
    <3> HIDE DEF off, m
    <3> QED
      BY <3>1, <1>1, <1>3 DEF SaturatingSub
  <2> QED
    BY <1>1, <2>1, <2>2, <2>3, <2>4
<1> HIDE DEF off, m
<1>6. Bytes(v, m[1], m[2] - m[1]) = Bytes(v, off, n)
  BY <1>5, NoBytes
<1> QED
  BY <1>6 DEF off, m

-----------------------------------------------------------------------------
(* The invariant is kept.                                                  *)

(* Versions are only added to.                                             *)
History ==
  /\ Len(versions') \in Nat /\ Len(versions') >= Len(versions)
  /\ \A v \in 1 .. Len(versions) : versions'[v] = versions[v]

LEMMA CallKept ==
  ASSUME NEW q, CallOK(q), Shapes, History, size' = size
  PROVE  CallOK(q)'
<1>1. Len(versions) \in Nat
  BY DEF Shapes
<1>2. CASE q.kind # "read"
  BY <1>2 DEF CallOK
<1>3. CASE q.kind = "read"
  <2>1. Reading(q)
    BY <1>3 DEF CallOK
  <2>2. q.since \in 1 .. Len(versions) /\ q.since \in 1 .. Len(versions')
    BY <1>1, <2>1 DEF Reading, History
  <2>3. ASSUME NEW v \in q.since .. Len(versions), DataOf(q, v)
        PROVE  v \in q.since .. Len(versions') /\ DataOf(q, v)'
    <3>1. v \in 1 .. Len(versions) /\ v \in q.since .. Len(versions')
      BY <1>1, <2>2 DEF History
    <3>2. versions'[v] = versions[v]
      BY <3>1 DEF History
    <3> QED
      BY <2>3, <3>1, <3>2 DEF DataOf
  <2>4. Extent(q.asked)' = Extent(q.asked)
    BY DEF Extent
  <2>5. Reading(q)'
    BY <2>1, <2>2, <2>3, <2>4 DEF Reading
  <2> QED
    BY <1>3, <2>5 DEF CallOK
<1> QED
  BY <1>2, <1>3

LEMMA DoneKept ==
  ASSUME NEW d, DoneOK(d), Shapes, History, size' = size
  PROVE  DoneOK(d)'
<1> SUFFICES ASSUME d.outcome = "Ok", d.call.kind = "read"
             PROVE  /\ size' # None
                    /\ d.call.since \in Nat \ {0} /\ d.until \in 1 .. Len(versions')
                    /\ Answered(d)'
  BY DEF DoneOK
<1>1. Len(versions) \in Nat
  BY DEF Shapes
<1>2. /\ size # None /\ d.call.since \in Nat \ {0} /\ d.until \in 1 .. Len(versions)
      /\ Answered(d)
  BY DEF DoneOK
<1>3. \A v \in d.call.since .. d.until : versions'[v] = versions[v]
  BY <1>1, <1>2 DEF History
<1>4. Answered(d)'
  BY <1>2, <1>3 DEF Answered
<1> QED
  BY <1>1, <1>2, <1>4 DEF History

(* Steps that change one caller's request, and perhaps its answer.         *)
LEMMA OneCaller ==
  ASSUME Inv, NEW c \in Callers, NEW x,
         call' = [call EXCEPT ![c] = x], UNCHANGED <<versions, size>>,
         x = None \/ (x \in CallRecs /\ CallOK(x)),
         x # None /\ x.kind = "stat" =>
           /\ size = None
           /\ \A d \in Callers \ {c} : call[d] # None => call[d].kind # "stat",
         NEW y, done' = [done EXCEPT ![c] = y] \/ done' = done, y = None \/ DoneOK(y)
  PROVE  Inv'
<1>1. Shapes /\ History
  BY DEF Inv, Shapes, History
<1>2. call'[c] = x /\ \A d \in Callers \ {c} : call'[d] = call[d]
  BY <1>1 DEF Shapes
<1>3. Shapes'
  BY <1>1 DEF Shapes
<1>4. OneStat'
  BY <1>2 DEF Inv, OneStat
<1>5. ASSUME NEW d \in Callers, call'[d] # None PROVE CallOK(call[d])'
  <2>1. PICK q : q = call'[d]
    OBVIOUS
  <2>2. CallOK(q)
    BY <1>2, <1>5, <2>1 DEF Inv
  <2>3. CallOK(q)'
    BY <2>2, <1>1, CallKept
  <2> QED
    BY <2>1, <2>3
<1>6. ASSUME NEW d \in Callers, done'[d] # None PROVE DoneOK(done[d])'
  <2>1. PICK q : q = done'[d]
    OBVIOUS
  <2>2. q = y \/ q = done[d]
    BY <2>1, <1>1 DEF Shapes
  <2>3. DoneOK(q)
    BY <1>6, <2>1, <2>2 DEF Inv
  <2>4. DoneOK(q)'
    BY <2>3, <1>1, DoneKept
  <2> QED
    BY <2>1, <2>4
<1> QED
  BY <1>3, <1>4, <1>5, <1>6 DEF Inv

LEMMA InvInit == Init => Inv
<1> SUFFICES ASSUME Init PROVE Inv
  OBVIOUS
<1>1. PICK n \in Sizes : versions = <<n>>
  BY DEF Init
<1>2. versions \in Seq(Sizes) /\ Len(versions) = 1
  BY <1>1
<1>3. Shapes
  BY <1>2 DEF Init, Shapes
<1>4. \A c \in Callers : call[c] = None /\ done[c] = None
  BY DEF Init
<1> QED
  BY <1>3, <1>4 DEF Inv, OneStat

LEMMA InvReplace == ASSUME Inv, NEW n \in Sizes, Replace(n) PROVE Inv'
<1>1. Shapes
  BY DEF Inv
<1>2. versions' = Append(versions, n) /\ UNCHANGED <<size, call, done>>
  BY DEF Replace
<1>3. versions' \in Seq(Sizes) /\ Len(versions') = Len(versions) + 1 /\ Len(versions) \in Nat
  BY <1>1, <1>2 DEF Shapes
<1>4. History
  BY <1>1, <1>2, <1>3 DEF Shapes, History
<1>5. Shapes' /\ OneStat'
  BY <1>1, <1>2, <1>3 DEF Inv, Shapes, OneStat
<1>6. ASSUME NEW d \in Callers, call[d] # None PROVE CallOK(call[d])'
  <2>1. PICK q : q = call[d]
    OBVIOUS
  <2>2. CallOK(q)'
    BY <1>1, <1>2, <1>4, <1>6, <2>1, CallKept DEF Inv
  <2> QED
    BY <1>2, <2>1, <2>2
<1>7. ASSUME NEW d \in Callers, done[d] # None PROVE DoneOK(done[d])'
  <2>1. PICK q : q = done[d]
    OBVIOUS
  <2>2. DoneOK(q)'
    BY <1>1, <1>2, <1>4, <1>7, <2>1, DoneKept DEF Inv
  <2> QED
    BY <1>2, <2>1, <2>2
<1> QED
  BY <1>2, <1>5, <1>6, <1>7 DEF Inv

LEMMA InvRequest ==
  ASSUME Inv, NEW c \in Callers, Stat(c) \/ Sign(c) \/ \E r \in Ranges : Read(c, r)
  PROVE  Inv'
<1>1. Shapes /\ Len(versions) \in Nat /\ Len(versions) \in 1 .. Len(versions)
  BY DEF Inv, Shapes
<1> DEFINE Made(kind, r, offset, length) ==
             [kind |-> kind, asked |-> r, offset |-> offset, length |-> length,
              phase |-> "sent", since |-> Len(versions), reply |-> None, want |-> None]
<1>2. ASSUME NEW kind, NEW r, NEW offset, NEW length, Request(c, kind, r, offset, length)
      PROVE  /\ call' = [call EXCEPT ![c] = Made(kind, r, offset, length)]
             /\ done' = [done EXCEPT ![c] = None]
  BY <1>2 DEF Request
<1>3. ASSUME Stat(c) PROVE Inv'
  <2>1. PICK x : x = Made("stat", None, 0, 0)
    OBVIOUS
  <2>2. call' = [call EXCEPT ![c] = x] /\ done' = [done EXCEPT ![c] = None]
    BY <1>2, <1>3, <2>1 DEF Stat
  <2>3. x \in CallRecs
    BY <1>1, <2>1 DEF CallRecs
  <2>4. CallOK(x)
    BY <2>1 DEF CallOK
  <2>5. /\ size = None /\ UNCHANGED <<versions, size>>
        /\ \A d \in Callers \ {c} : call[d] # None => call[d].kind # "stat"
    BY <1>3 DEF Stat
  <2> QED
    BY <2>2, <2>3, <2>4, <2>5, OneCaller
<1>4. ASSUME Sign(c) PROVE Inv'
  <2>1. PICK x : x = Made("sign", None, 0, 0)
    OBVIOUS
  <2>2. call' = [call EXCEPT ![c] = x] /\ done' = [done EXCEPT ![c] = None]
    BY <1>2, <1>4, <2>1 DEF Sign
  <2>3. x \in CallRecs
    BY <1>1, <2>1 DEF CallRecs
  <2>4. CallOK(x) /\ x.kind = "sign"
    BY <2>1 DEF CallOK
  <2>5. UNCHANGED <<versions, size>>
    BY <1>4 DEF Sign
  <2> QED
    BY <2>2, <2>3, <2>4, <2>5, OneCaller
<1>5. ASSUME NEW r \in Ranges, Read(c, r) PROVE Inv'
  <2>1. PICK x : x = Made("read", r, Extent(r)[1], Extent(r)[2])
    OBVIOUS
  <2>2. call' = [call EXCEPT ![c] = x] /\ done' = [done EXCEPT ![c] = None]
    BY <1>2, <1>5, <2>1 DEF Read
  <2>3. size # None /\ (r.kind = "Bounded" => r.a <= r.b) /\ UNCHANGED <<versions, size>>
    BY <1>5 DEF Read
  <2>4. Extent(r)[1] \in Nat /\ Extent(r)[2] \in Nat
    BY <1>1, <2>3, ExtentOK DEF Shapes
  <2>5. x \in CallRecs
    BY <1>1, <2>1, <2>4 DEF CallRecs
  <2>6. CallOK(x) /\ x.kind = "read"
    BY <1>1, <2>1, <2>3 DEF CallOK, Reading
  <2> QED
    BY <2>2, <2>3, <2>5, <2>6, OneCaller
<1> QED
  BY <1>3, <1>4, <1>5

(* What a daemon may reply.                                                *)
LEMMA ReplyShapes ==
  ASSUME Shapes, NEW q \in CallRecs, NEW a \in Replies(q)
  PROVE  /\ a \in ReplyRecs
         /\ q.kind = "read" =>
              /\ a.form \in {"error", "code", "garbage", "data"}
              /\ a.form = "code" => a.n = None /\ a.payload = <<>>
              /\ a.form = "data" =>
                   LET v == Len(versions)
                       n == Min({q.length, SaturatingSub(versions[v], q.offset)})
                   IN  /\ a.n = n \/ (a.n = None /\ n = q.length)
                       /\ \E sent \in 0 .. n : a.payload = Bytes(v, q.offset, sent)
<1> DEFINE v == Len(versions)
           n == Min({q.length, SaturatingSub(versions[v], q.offset)})
<1>1. v \in Nat /\ versions[v] \in Nat /\ q.length \in Nat /\ q.offset \in Nat
  <2>1. v \in 1 .. Len(versions) /\ v \in Nat /\ versions \in Seq(Sizes)
    BY DEF Shapes
  <2>2. versions[v] \in Sizes
    BY <2>1
  <2>3. q.length \in Nat /\ q.offset \in Nat
    BY DEF CallRecs
  <2> QED
    BY <2>1, <2>2, <2>3, DaemonConstants
<1>2. SaturatingSub(versions[v], q.offset) \in Nat
  BY <1>1 DEF SaturatingSub
<1>3. n \in Nat
  BY <1>1, <1>2, MinOfTwo
<1>4. <<>> \in Seq(Nat \X Nat)
  OBVIOUS
<1>5. CASE a \in Refusals \cup Malformed
  <2>1. \/ \E k \in {"ACCESS_DENIED", None} : a = Reply(1, "error", k, None, <<>>)
        \/ a = Reply(1, "code", "ACCESS_DENIED", None, <<>>)
        \/ \E l \in {0, 1, 4} : a = Reply(l, "garbage", None, None, <<>>)
    BY <1>5 DEF Refusals, Malformed
  <2>2. ASSUME NEW k \in {"ACCESS_DENIED", None}, a = Reply(1, "error", k, None, <<>>)
        PROVE  a \in ReplyRecs /\ a.form = "error"
    BY <1>4, <2>2 DEF Reply, ReplyRecs
  <2>3. ASSUME a = Reply(1, "code", "ACCESS_DENIED", None, <<>>)
        PROVE  a \in ReplyRecs /\ a.form = "code" /\ a.n = None /\ a.payload = <<>>
    BY <1>4, <2>3 DEF Reply, ReplyRecs
  <2>4. ASSUME NEW l \in {0, 1, 4}, a = Reply(l, "garbage", None, None, <<>>)
        PROVE  a \in ReplyRecs /\ a.form = "garbage"
    BY <1>4, <2>4 DEF Reply, ReplyRecs
  <2> QED
    BY <2>1, <2>2, <2>3, <2>4
<1>6. CASE a \notin Refusals \cup Malformed /\ q.kind = "read"
  <2>1. a \in Data(q)
    BY <1>6 DEF Replies
  <2> HIDE DEF n, v
  <2>2. CASE \E count \in {n} \cup (IF n = q.length THEN {None} ELSE {}), sent \in 0 .. n :
               a = Reply(1, "data", None, count, Bytes(v, q.offset, sent))
    <3>1. PICK count \in {n} \cup (IF n = q.length THEN {None} ELSE {}), sent \in 0 .. n :
               a = Reply(1, "data", None, count, Bytes(v, q.offset, sent))
      BY <2>2
    <3>2. Bytes(v, q.offset, sent) \in Seq(Nat \X Nat)
      <4>1. sent \in Nat
        BY <1>3
      <4> QED
        BY <1>1, <4>1, ByteRuns DEF v
    <3>3. count = n \/ (count = None /\ n = q.length)
      BY <3>1
    <3>4. a \in ReplyRecs /\ a.form = "data" /\ a.n = count /\ a.payload = Bytes(v, q.offset, sent)
      BY <3>1, <3>2, <3>3, <1>3 DEF Reply, ReplyRecs
    <3> QED
      BY <3>1, <3>3, <3>4 DEF n, v
  <2>3. CASE a = Reply(1, "error", "RANGE_ERROR", None, <<>>)
    BY <1>4, <2>3 DEF Reply, ReplyRecs
  <2>4. \/ \E count \in {n} \cup (IF n = q.length THEN {None} ELSE {}), sent \in 0 .. n :
               a = Reply(1, "data", None, count, Bytes(v, q.offset, sent))
        \/ a = Reply(1, "error", "RANGE_ERROR", None, <<>>)
    <3> DEFINE C == {n} \cup (IF n = q.length THEN {None} ELSE {})
               Sent == {Reply(1, "data", None, count, Bytes(v, q.offset, sent)) :
                          count \in C, sent \in 0 .. n}
    <3>1. Data(q) = Sent \cup (IF n = q.length THEN {} ELSE {Reply(1, "error", "RANGE_ERROR", None, <<>>)})
      BY DEF Data, n, v
    <3>2. a \in Sent \/ a = Reply(1, "error", "RANGE_ERROR", None, <<>>)
      <4> HIDE DEF Sent
      <4> QED
        BY <2>1, <3>1
    <3> HIDE DEF C
    <3>3. a \in Sent => \E count \in C, sent \in 0 .. n :
                          a = Reply(1, "data", None, count, Bytes(v, q.offset, sent))
      OBVIOUS
    <3> QED
      BY <3>2, <3>3 DEF C
  <2> QED
    BY <2>2, <2>3, <2>4
<1>7. CASE a \notin Refusals \cup Malformed /\ q.kind = "stat"
  <2>1. PICK l \in {1, 2} : a = Reply(l, "stat", None, versions[v], <<>>)
    BY <1>7 DEF Replies
  <2> QED
    BY <1>1, <1>4, <1>7, <2>1 DEF Reply, ReplyRecs
<1>8. CASE a \notin Refusals \cup Malformed /\ q.kind = "sign"
  <2> DEFINE Jws == {Reply(l, "jws", j, None, <<>>) : l \in {1, 2, 3}, j \in {"jws", "empty"}}
  <2>1. a \in Jws
    <3> HIDE DEF Jws
    <3>1. Replies(q) = Refusals \cup Malformed \cup Jws
      BY <1>8 DEF Replies, Jws
    <3> QED
      BY <1>8, <3>1
  <2>2. PICK l \in {1, 2, 3}, j \in {"jws", "empty"} : a = Reply(l, "jws", j, None, <<>>)
    BY <2>1
  <2>3. a \in ReplyRecs
    BY <1>4, <2>2 DEF Reply, ReplyRecs
  <2> QED
    BY <1>8, <2>3
<1> QED
  BY <1>5, <1>6, <1>7, <1>8 DEF CallRecs

LEMMA InvAnswer == ASSUME Inv, NEW c \in Callers, Answer(c) PROVE Inv'
<1>1. Shapes /\ OneStat /\ Len(versions) \in Nat
  BY DEF Inv, Shapes
<1>2. PICK q : q = call[c]
  OBVIOUS
<1>3. q \in CallRecs /\ CallOK(q) /\ q # None /\ q.phase = "sent"
  BY <1>1, <1>2 DEF Inv, Shapes, Answer
<1>4. PICK a \in Replies(q) : call' = [call EXCEPT ![c].phase = "answered", ![c].reply = a]
  BY <1>2 DEF Answer
<1>5. UNCHANGED <<versions, size, done>>
  BY DEF Answer
<1>6. PICK x : x = [q EXCEPT !.phase = "answered", !.reply = a]
  OBVIOUS
<1>7. call' = [call EXCEPT ![c] = x]
  BY <1>1, <1>2, <1>4, <1>6 DEF Shapes
<1>8. /\ x.phase = "answered" /\ x.reply = a /\ x.kind = q.kind /\ x.asked = q.asked
      /\ x.offset = q.offset /\ x.length = q.length /\ x.since = q.since /\ x.want = q.want
  BY <1>3, <1>6 DEF CallRecs
<1>9. x \in CallRecs
  BY <1>1, <1>3, <1>6, ReplyShapes DEF CallRecs
<1>10. CallOK(x)
  <2>1. CASE q.kind # "read"
    BY <1>1, <1>3, <1>8, <2>1, ReplyShapes DEF CallOK
  <2>2. CASE q.kind = "read"
    <3>1. Reading(q)
      BY <1>3, <2>2 DEF CallOK
    <3>2. Len(versions) \in q.since .. Len(versions)
      BY <1>1, <3>1 DEF Reading
    <3>3. a.form = "data" => DataOf(x, Len(versions))
      BY <1>1, <1>3, <1>8, <2>2, ReplyShapes DEF DataOf
    <3>4. Reading(x)
      BY <1>1, <1>3, <1>8, <2>2, <3>1, <3>2, <3>3, ReplyShapes DEF Reading
    <3> QED
      BY <1>1, <1>3, <1>8, <3>4, ReplyShapes DEF CallOK
  <2> QED
    BY <2>1, <2>2
<1>11. x.kind = "stat" => /\ size = None
                          /\ \A d \in Callers \ {c} : call[d] # None => call[d].kind # "stat"
  BY <1>1, <1>2, <1>3, <1>8 DEF OneStat
<1> QED
  BY <1>5, <1>7, <1>9, <1>10, <1>11, OneCaller

(* A request that ends, with an error or with something else than the      *)
(* bytes of a read.                                                        *)
LEMMA InvReturn ==
  ASSUME Inv, NEW c \in Callers, NEW outcome, NEW value, Return(c, outcome, value),
         size' = size,
         outcome = "Ok" /\ call[c].kind = "read" =>
           DoneOK([call |-> call[c], outcome |-> outcome, value |-> value,
                   until |-> Len(versions)])
  PROVE  Inv'
<1>1. PICK y : y = [call |-> call[c], outcome |-> outcome, value |-> value, until |-> Len(versions)]
  OBVIOUS
<1>2. /\ done' = [done EXCEPT ![c] = y] /\ call' = [call EXCEPT ![c] = None]
      /\ UNCHANGED versions
  BY <1>1 DEF Return
<1>3. DoneOK(y)
  BY <1>1 DEF DoneOK
<1> QED
  BY <1>2, <1>3, OneCaller

LEMMA InvLose == ASSUME Inv, NEW c \in Callers, Lose(c) PROVE Inv'
<1>1. PICK e \in {"SocketUnreachable", "Io"} : Return(c, e, None)
  BY DEF Lose
<1>2. size' = size /\ e # "Ok"
  BY DEF Lose
<1> QED
  BY <1>1, <1>2, InvReturn

(* The stat is answered: the store exists from here on.                    *)
LEMMA InvStatAnswered ==
  ASSUME Inv, NEW c \in Callers, call[c] # None, call[c].kind = "stat",
         NEW n \in Nat \cup {None}, Return(c, "Ok", n), size' = n
  PROVE  Inv'
<1>1. Shapes /\ OneStat /\ size = None
  BY DEF Inv, OneStat
<1>2. PICK y : y = [call |-> call[c], outcome |-> "Ok", value |-> n, until |-> Len(versions)]
  OBVIOUS
<1>3. /\ done' = [done EXCEPT ![c] = y] /\ call' = [call EXCEPT ![c] = None]
      /\ UNCHANGED versions
  BY <1>2 DEF Return
<1>4. call'[c] = None /\ \A d \in Callers \ {c} : call'[d] = call[d]
  BY <1>1, <1>3 DEF Shapes
<1>5. Shapes'
  BY <1>1, <1>3 DEF Shapes
<1>6. OneStat'
  BY <1>1, <1>4 DEF OneStat
<1>7. ASSUME NEW d \in Callers, call'[d] # None PROVE CallOK(call[d])'
  <2>1. PICK q : q = call'[d]
    OBVIOUS
  <2>2. CallOK(q)
    BY <1>4, <1>7, <2>1 DEF Inv
  <2>3. q.kind # "read"
    BY <1>1, <2>2 DEF CallOK, Reading
  <2>4. CallOK(q)'
    BY <2>2, <2>3 DEF CallOK
  <2> QED
    BY <2>1, <2>4
<1>8. ASSUME NEW d \in Callers, done'[d] # None PROVE DoneOK(done[d])'
  <2>1. PICK q : q = done'[d]
    OBVIOUS
  <2>2. CASE d = c
    <3>1. q = y
      BY <1>1, <1>3, <2>1, <2>2 DEF Shapes
    <3>2. q.call.kind = "stat"
      BY <1>2, <3>1
    <3>3. DoneOK(q)'
      BY <3>2 DEF DoneOK
    <3> QED
      BY <2>1, <3>3
  <2>3. CASE d # c
    <3>1. q = done[d] /\ DoneOK(q)
      BY <1>1, <1>3, <1>8, <2>1, <2>3 DEF Shapes, Inv
    <3>2. ~ (q.outcome = "Ok" /\ q.call.kind = "read")
      BY <1>1, <3>1 DEF DoneOK
    <3>3. DoneOK(q)'
      BY <3>2 DEF DoneOK
    <3> QED
      BY <2>1, <3>3
  <2> QED
    BY <2>2, <2>3
<1> QED
  BY <1>5, <1>6, <1>7, <1>8 DEF Inv

LEMMA InvReadFrame == ASSUME Inv, NEW c \in Callers, ReadFrame(c) PROVE Inv'
<1>1. Shapes /\ OneStat
  BY DEF Inv
<1>2. PICK q : q = call[c]
  OBVIOUS
<1>3. q # None /\ q.phase = "answered"
  BY <1>2 DEF ReadFrame
<1>4. q \in CallRecs /\ CallOK(q)
  BY <1>1, <1>2, <1>3 DEF Inv, Shapes
<1>5. q.reply \in ReplyRecs /\ q.reply.n \in Nat \cup {None}
  BY <1>3, <1>4 DEF CallOK, ReplyRecs
<1>6. \/ \E e \in {"Protocol", ErrorOf(q)} : Return(c, e, None) /\ size' = size
      \/ /\ q.kind = "read" /\ q.reply.form \notin {"garbage", "error"}
         /\ call' = [call EXCEPT ![c].phase = "payload",
                       ![c].want = IF q.reply.n = None THEN q.length ELSE q.reply.n]
         /\ UNCHANGED <<versions, size, done>>
      \/ q.kind = "stat" /\ Return(c, "Ok", q.reply.n) /\ size' = q.reply.n
      \/ q.kind = "sign" /\ Return(c, "Ok", q.reply.code) /\ size' = size
  <2>1. q.reply.len \in Nat /\ Limit[q.kind] \in Nat
    BY <1>4, <1>5 DEF CallRecs, ReplyRecs, Limit
  <2> DEFINE bad == q.reply.len = 0 \/ q.reply.len > Limit[q.kind] \/ q.reply.form = "garbage"
  <2>2. ~ bad => q.reply.len \in 1 .. Limit[q.kind]
    BY <2>1
  <2>3. CASE bad
    <3>0. /\ ~ (q.reply.len \in 1 .. Limit[q.kind] /\ q.reply.form = "error")
          /\ ~ (q.reply.len \in 1 .. Limit[q.kind] /\ q.reply.form \notin {"garbage", "error"})
      BY <2>1, <2>3
    <3>1. Return(c, "Protocol", None) /\ UNCHANGED size
      BY <1>2, <2>3, <3>0, Zenon DEF ReadFrame
    <3> QED
      BY <3>1
  <2>4. CASE ~ bad /\ q.reply.form = "error"
    <3>1. Return(c, ErrorOf(q), None) /\ UNCHANGED size
      BY <1>2, <2>2, <2>4 DEF ReadFrame
    <3> QED
      BY <3>1
  <2>5. CASE ~ bad /\ q.reply.form # "error"
    <3> DEFINE other == q.kind \notin {"read", "stat", "sign"}
                          \/ (q.kind = "stat" /\ q.reply.form # "stat")
                          \/ (q.kind = "sign" /\ (q.reply.form # "jws" \/ q.reply.code = "empty"))
    <3>1. q.reply.len \in 1 .. Limit[q.kind] /\ q.reply.form \notin {"garbage", "error"}
      BY <2>2, <2>5
    <3>2. CASE q.kind = "read"
      BY <1>2, <2>5, <3>1, <3>2 DEF ReadFrame
    <3>3. CASE q.kind = "stat" /\ q.reply.form = "stat"
      BY <1>2, <2>5, <3>1, <3>3 DEF ReadFrame
    <3>4. CASE q.kind = "sign" /\ q.reply.form = "jws" /\ q.reply.code # "empty"
      BY <1>2, <2>5, <3>1, <3>4 DEF ReadFrame
    <3>5. CASE other
      <4>1. Return(c, "Protocol", None) /\ UNCHANGED size
        BY <1>2, <2>5, <3>1, <3>5 DEF ReadFrame
      <4> QED
        BY <4>1
    <3> QED
      BY <3>2, <3>3, <3>4, <3>5
  <2> QED
    BY <2>3, <2>4, <2>5
<1>7. ASSUME NEW e \in {"Protocol", ErrorOf(q)}, Return(c, e, None), size' = size PROVE Inv'
  <2>1. ErrorOf(q) # "Ok"
    BY DEF ErrorOf
  <2> QED
    BY <1>7, <2>1, InvReturn
<1>8. ASSUME q.kind = "stat", Return(c, "Ok", q.reply.n), size' = q.reply.n PROVE Inv'
  BY <1>2, <1>3, <1>5, <1>8, InvStatAnswered
<1>9. ASSUME q.kind = "sign", Return(c, "Ok", q.reply.code), size' = size PROVE Inv'
  BY <1>2, <1>9, InvReturn
<1>10. ASSUME q.kind = "read", q.reply.form \notin {"garbage", "error"},
              call' = [call EXCEPT ![c].phase = "payload",
                         ![c].want = IF q.reply.n = None THEN q.length ELSE q.reply.n],
              UNCHANGED <<versions, size, done>>
       PROVE  Inv'
  <2>1. PICK want : want = IF q.reply.n = None THEN q.length ELSE q.reply.n
    OBVIOUS
  <2>2. PICK x : x = [q EXCEPT !.phase = "payload", !.want = want]
    OBVIOUS
  <2>3. call' = [call EXCEPT ![c] = x]
    BY <1>1, <1>2, <1>10, <2>1, <2>2 DEF Shapes
  <2>4. /\ x.phase = "payload" /\ x.want = want /\ x.kind = q.kind /\ x.asked = q.asked
        /\ x.offset = q.offset /\ x.length = q.length /\ x.since = q.since /\ x.reply = q.reply
    BY <1>4, <2>2 DEF CallRecs
  <2>5. want \in Nat
    BY <1>4, <1>5, <2>1 DEF CallRecs
  <2>6. x \in CallRecs
    BY <1>4, <2>2, <2>5 DEF CallRecs
  <2>7. Reading(q)
    BY <1>4, <1>10 DEF CallOK
  <2>8. \A v : DataOf(q, v) => DataOf(x, v)
    BY <2>4 DEF DataOf
  <2>9. Reading(x)
    BY <1>3, <1>10, <2>1, <2>4, <2>7, <2>8 DEF Reading
  <2>10. CallOK(x) /\ x.kind # "stat"
    BY <1>5, <1>10, <2>4, <2>9 DEF CallOK
  <2> QED
    BY <1>10, <2>3, <2>6, <2>10, OneCaller
<1> QED
  BY <1>6, <1>7, <1>8, <1>9, <1>10

(* All of the payload came: it is what the range means.                    *)
LEMMA InvReadPayload == ASSUME Inv, NEW c \in Callers, ReadPayload(c) PROVE Inv'
<1>1. Shapes /\ Len(versions) \in Nat /\ versions \in Seq(Sizes)
  BY DEF Inv, Shapes
<1>2. PICK q : q = call[c]
  OBVIOUS
<1>3. q # None /\ q.phase = "payload" /\ size' = size
  BY <1>2 DEF ReadPayload
<1>4. q \in CallRecs /\ CallOK(q)
  BY <1>1, <1>2, <1>3 DEF Inv, Shapes
<1>5. q.kind = "read" /\ Reading(q)
  BY <1>3, <1>4 DEF CallOK
<1>6. CASE Len(q.reply.payload) # q.want
  <2>1. Return(c, "Io", None)
    BY <1>2, <1>6 DEF ReadPayload
  <2> QED
    BY <1>3, <2>1, InvReturn
<1>7. CASE Len(q.reply.payload) = q.want
  <2>1. Return(c, "Ok", q.reply.payload)
    BY <1>2, <1>7 DEF ReadPayload
  <2>2. PICK d : d = [call |-> q, outcome |-> "Ok", value |-> q.reply.payload,
                      until |-> Len(versions)]
    OBVIOUS
  <2>3. d.call = q /\ d.value = q.reply.payload /\ d.until = Len(versions)
    BY <2>2
  <2>4. /\ size \in Nat /\ q.since \in 1 .. Len(versions) /\ q.asked \in Ranges
        /\ q.asked.kind = "Bounded" => q.asked.a <= q.asked.b
        /\ q.offset = Extent(q.asked)[1] /\ q.length = Extent(q.asked)[2]
        /\ q.want = IF q.reply.n = None THEN q.length ELSE q.reply.n
        /\ q.reply.form \in {"code", "data"}
    BY <1>1, <1>3, <1>5 DEF Reading, Shapes
  <2>5. q.offset \in Nat /\ q.length \in Nat
    BY <1>4 DEF CallRecs
  \* The bytes are those of some version from the offset on, all there are of the length.
  <2>6. \E v \in q.since .. Len(versions) :
          LET n == Min({q.length, SaturatingSub(versions[v], q.offset)}) IN
            n \in Nat /\ q.reply.payload = Bytes(v, q.offset, n)
    <3>n. ASSUME NEW v \in q.since .. Len(versions)
          PROVE  /\ v \in 1 .. Len(versions) /\ versions[v] \in Nat
                 /\ SaturatingSub(versions[v], q.offset) \in Nat
                 /\ Min({q.length, SaturatingSub(versions[v], q.offset)}) \in Nat
                 /\ Min({q.length, SaturatingSub(versions[v], q.offset)}) <= q.length
      <4>1. v \in 1 .. Len(versions)
        BY <1>1, <2>4
      <4>2. versions[v] \in Nat
        <5>1. versions[v] \in Sizes
          BY <1>1, <4>1
        <5> QED
          BY <5>1, DaemonConstants
      <4>3. SaturatingSub(versions[v], q.offset) \in Nat
        BY <2>5, <4>2 DEF SaturatingSub
      <4> QED
        BY <4>1, <4>2, <4>3, <2>5, MinOfTwo
    <3>1. CASE q.reply.form = "code"
      <4>1. q.reply.n = None /\ q.reply.payload = <<>>
        BY <1>3, <1>5, <3>1 DEF Reading
      <4>2. q.length = 0
        BY <1>7, <2>4, <4>1
      <4>3. q.since \in q.since .. Len(versions)
        BY <1>1, <2>4
      <4>4. Min({q.length, SaturatingSub(versions[q.since], q.offset)}) = 0
        BY <3>n, <4>2, <4>3
      <4>5. Bytes(q.since, q.offset, Min({q.length, SaturatingSub(versions[q.since], q.offset)})) = <<>>
        BY <4>4, NoBytes
      <4>6. /\ Min({q.length, SaturatingSub(versions[q.since], q.offset)}) \in Nat
            /\ q.reply.payload = Bytes(q.since, q.offset,
                                       Min({q.length, SaturatingSub(versions[q.since], q.offset)}))
        BY <4>1, <4>4, <4>5
      <4> QED
        BY <4>3, <4>6
    <3>2. CASE q.reply.form = "data"
      <4>1. PICK v \in q.since .. Len(versions) : DataOf(q, v)
        BY <1>3, <1>5, <3>2 DEF Reading
      <4> DEFINE n == Min({q.length, SaturatingSub(versions[v], q.offset)})
      <4>2. n \in Nat /\ v \in Nat
        BY <3>n
      <4>3. PICK sent \in 0 .. n : q.reply.payload = Bytes(v, q.offset, sent)
        BY <4>1 DEF DataOf
      <4>4. q.reply.n = n \/ (q.reply.n = None /\ n = q.length)
        BY <4>1 DEF DataOf
      <4>5. q.want = n
        BY <2>4, <4>2, <4>4, DaemonConstants
      <4>6. sent = n
        <5>1. sent \in Nat
          BY <4>2
        <5>2. Len(Bytes(v, q.offset, sent)) = sent
          BY <2>5, <4>2, <5>1, ByteRuns
        <5> QED
          BY <1>7, <4>3, <4>5, <5>2
      <4> QED
        BY <4>2, <4>3, <4>6
    <3> QED
      BY <2>4, <3>1, <3>2
  <2>7. PICK v \in q.since .. Len(versions) :
          LET n == Min({q.length, SaturatingSub(versions[v], q.offset)}) IN
            n \in Nat /\ q.reply.payload = Bytes(v, q.offset, n)
    BY <2>6
  <2>8. v \in Nat
    BY <1>1, <2>4
  <2> DEFINE n == Min({q.length, SaturatingSub(versions[v], q.offset)})
             m == Meant(q.asked, versions[v])
  <2>9. n \in Nat /\ q.reply.payload = Bytes(v, q.offset, n)
    BY <2>7
  <2>10. Len(q.reply.payload) = n
    <3> HIDE DEF n
    <3>1. Len(Bytes(v, q.offset, n)) = n
      BY <2>5, <2>8, <2>9, ByteRuns
    <3> QED
      BY <2>9, <3>1
  <2>11. versions[v] = size => q.reply.payload = Bytes(v, m[1], m[2] - m[1])
    BY <2>4, <2>8, <2>9, ExtentIsMeant
  <2>12. Answered(d)
    BY <2>3, <2>7, <2>9, <2>10, <2>11 DEF Answered
  <2>13. DoneOK(d)
    <3>1. size # None /\ q.since \in Nat \ {0} /\ Len(versions) \in 1 .. Len(versions)
      BY <1>1, <2>4, DaemonConstants
    <3> QED
      BY <2>3, <2>12, <3>1 DEF DoneOK
  <2> QED
    BY <1>2, <1>3, <2>1, <2>2, <2>13, InvReturn
<1> QED
  BY <1>6, <1>7

LEMMA InvStep == Inv /\ [Next]_vars => Inv'
<1> SUFFICES ASSUME Inv, [Next]_vars PROVE Inv'
  OBVIOUS
<1>1. CASE UNCHANGED vars
  <2>1. UNCHANGED <<versions, size, call, done>>
    BY <1>1 DEF vars
  <2>2. Shapes /\ OneStat /\ History
    BY <2>1 DEF Inv, Shapes, History
  <2>3. Shapes' /\ OneStat'
    BY <2>1, <2>2 DEF Shapes, OneStat
  <2>4. ASSUME NEW d \in Callers, call[d] # None PROVE CallOK(call[d])'
    <3>1. PICK q : q = call[d]
      OBVIOUS
    <3>2. CallOK(q)'
      BY <2>1, <2>2, <2>4, <3>1, CallKept DEF Inv
    <3> QED
      BY <2>1, <3>1, <3>2
  <2>5. ASSUME NEW d \in Callers, done[d] # None PROVE DoneOK(done[d])'
    <3>1. PICK q : q = done[d]
      OBVIOUS
    <3>2. DoneOK(q)'
      BY <2>1, <2>2, <2>5, <3>1, DoneKept DEF Inv
    <3> QED
      BY <2>1, <3>1, <3>2
  <2> QED
    BY <2>1, <2>3, <2>4, <2>5 DEF Inv
<1>2. CASE Next
  BY <1>2, InvRequest, InvAnswer, InvLose, InvReadFrame, InvReadPayload, InvReplace DEF Next
<1> QED
  BY <1>1, <1>2

(* read_bytes under the object store, for any assets, callers and daemon   *)
(* failures: what get, get_opts and get_range return is one unbroken run   *)
(* of bytes of one version of the time of the read, and all that the range *)
(* stands for when that version has the size the store knows.              *)
THEOREM ReadsAreExact == Spec => []ReadIsWhatWasAsked
<1>1. Inv => ReadIsWhatWasAsked
  <2> SUFFICES ASSUME Inv, NEW c \in Callers,
                      done[c] # None, done[c].outcome = "Ok", done[c].call.kind = "read"
               PROVE  Answered(done[c])
    BY DEF ReadIsWhatWasAsked, Answered
  <2> QED
    BY DEF Inv, DoneOK
<1> QED
  BY InvInit, InvStep, <1>1, PTL DEF Spec
=============================================================================

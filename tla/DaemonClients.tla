---------------------------- MODULE DaemonClients ----------------------------
(***************************************************************************)
(* The socket clients of the engine: StoragedClient (read_bytes,           *)
(* stat_asset) with the object store built on it (StoragedObjectStore of   *)
(* src/src/lance_table.rs), and T05Client (sign_envelope).                 *)
(*                                                                         *)
(* Every request has a connection of its own, so callers meet only in the  *)
(* daemon, where the asset may be replaced between two requests.  Byte i   *)
(* of version v of the asset is <<v, i>>.  The length a reply announces is *)
(* 0, or the first of the size classes 64 KiB, 1 MiB, 4 MiB it fits in     *)
(* (1, 2, 3), or 4.                                                        *)
(***************************************************************************)
EXTENDS Naturals, Sequences, FiniteSetsExt

CONSTANTS
  None,
  Callers,
  Sizes,          \* the sizes the asset may have
  MaxVersions,    \* bound: how often the asset is replaced, plus one
  MaxCalls        \* bound: requests

ASSUME DaemonConstants ==
  /\ Sizes \subseteq Nat /\ \E m \in Sizes : \A n \in Sizes : n <= m
  /\ None \notin Nat

VARIABLES
  versions,       \* the sizes of the asset's versions; the last one is current
  size,           \* StoragedObjectStore.size, None until the store exists
  call,           \* each caller's request, or None
  done,           \* the answer to each caller's last request, or None
  calls           \* requests made

vars == <<versions, size, call, done, calls>>

SaturatingSub(a, b) == IF a > b THEN a - b ELSE 0
Top == Max(Sizes)

Init ==
  /\ versions \in {<<n>> : n \in Sizes}
  /\ size = None
  /\ call = [c \in Callers |-> None]
  /\ done = [c \in Callers |-> None]
  /\ calls = 0

-----------------------------------------------------------------------------
(* What a caller may ask of the object store                               *)

GetRange(kind, a, b) == [kind |-> kind, a |-> a, b |-> b]
Ranges ==
  {GetRange("Bounded", a, b) : a \in 0 .. Top, b \in 0 .. Top + 1}
    \cup {GetRange(k, a, 0) : k \in {"Offset", "Suffix"}, a \in 0 .. Top + 1}
    \cup {GetRange("Full", 0, 0)}

(* get, get_opts and get_range: the offset and length asked of the daemon, *)
(* worked out from the size known since the store was made.                *)

Extent(r) ==
  CASE r.kind = "Bounded" -> <<r.a, r.b - r.a>>
    [] r.kind = "Offset"  -> <<r.a, SaturatingSub(size, r.a)>>
    [] r.kind = "Suffix"  -> <<SaturatingSub(size, r.a), r.a>>
    [] r.kind = "Full"    -> <<0, size>>

Request(c, kind, r, offset, length) ==
  /\ call[c] = None
  /\ calls < MaxCalls
  /\ calls' = calls + 1
  /\ done' = [done EXCEPT ![c] = None]
  /\ call' = [call EXCEPT ![c] =
       [kind |-> kind, asked |-> r, offset |-> offset, length |-> length,
        phase |-> "sent", since |-> Len(versions), reply |-> None, want |-> None]]

(* StoragedObjectStore::new stats the asset once.                          *)
Stat(c) ==
  /\ size = None
  /\ \A d \in Callers : call[d] # None => call[d].kind # "stat"
  /\ Request(c, "stat", None, 0, 0)
  /\ UNCHANGED <<versions, size>>

Read(c, r) ==
  /\ size # None
  /\ r.kind = "Bounded" => r.a <= r.b
  /\ Request(c, "read", r, Extent(r)[1], Extent(r)[2])
  /\ UNCHANGED <<versions, size>>

Sign(c) ==
  /\ Request(c, "sign", None, 0, 0)
  /\ UNCHANGED <<versions, size>>

-----------------------------------------------------------------------------
(* The daemons: one reply per request, from the asset as it is then.       *)

Bytes(v, from, n) == [i \in 1 .. n |-> <<v, from + i - 1>>]

Reply(len, form, code, n, payload) ==
  [len |-> len, form |-> form, code |-> code, n |-> n, payload |-> payload]

(* Refusals name a code or not; "code" is a reply with error_code only.    *)
Refusals == {Reply(1, "error", k, None, <<>>) : k \in {"ACCESS_DENIED", None}}
              \cup {Reply(1, "code", "ACCESS_DENIED", None, <<>>)}
Malformed == {Reply(l, "garbage", None, None, <<>>) : l \in {0, 1, 4}}

(* The daemon sends what is there, with a count unless all is there, or    *)
(* refuses a range that is not all there; it may die while it sends.       *)
Data(q) ==
  LET v == Len(versions)
      n == Min({q.length, SaturatingSub(versions[v], q.offset)})
  IN  {Reply(1, "data", None, count, Bytes(v, q.offset, sent)) :
         count \in {n} \cup (IF n = q.length THEN {None} ELSE {}), sent \in 0 .. n}
        \cup (IF n = q.length THEN {} ELSE {Reply(1, "error", "RANGE_ERROR", None, <<>>)})

Replies(q) ==
  Refusals \cup Malformed \cup
    CASE q.kind = "read" -> Data(q)
      [] q.kind = "stat" -> {Reply(l, "stat", None, versions[Len(versions)], <<>>) : l \in {1, 2}}
      [] q.kind = "sign" -> {Reply(l, "jws", j, None, <<>>) : l \in {1, 2, 3}, j \in {"jws", "empty"}}

Answer(c) ==
  /\ call[c] # None /\ call[c].phase = "sent"
  /\ \E a \in Replies(call[c]) :
       call' = [call EXCEPT ![c].phase = "answered", ![c].reply = a]
  /\ UNCHANGED <<versions, size, done, calls>>

Replace(n) ==
  /\ Len(versions) < MaxVersions
  /\ versions' = Append(versions, n)
  /\ UNCHANGED <<size, call, done, calls>>

-----------------------------------------------------------------------------
(* The clients                                                             *)

Limit == [read |-> 3, stat |-> 1, sign |-> 2]

Return(c, outcome, value) ==
  /\ done' = [done EXCEPT ![c] = [call |-> call[c], outcome |-> outcome, value |-> value,
                                  until |-> Len(versions)]]
  /\ call' = [call EXCEPT ![c] = None]
  /\ UNCHANGED <<versions, calls>>

(* connect() fails, or the stream ends before the reply is there.          *)
Lose(c) ==
  /\ call[c] # None /\ call[c].phase = "sent"
  /\ \E e \in {"SocketUnreachable", "Io"} : Return(c, e, None)
  /\ UNCHANGED size

ErrorOf(q) ==
  CASE q.kind = "sign" -> "SigningRefused"
    [] q.reply.code = "ACCESS_DENIED" -> "AccessDenied"
    [] q.kind = "read" /\ q.reply.code = "RANGE_ERROR" -> "RangeError"
    [] OTHER -> "Protocol"

(* The frame's length, its parse, and what it says.  An error_code alone   *)
(* is no error to read_bytes, which then expects a payload.                *)
ReadFrame(c) ==
  LET q == call[c] IN
  /\ q # None /\ q.phase = "answered"
  /\ CASE q.reply.len = 0 \/ q.reply.len > Limit[q.kind] \/ q.reply.form = "garbage" ->
            Return(c, "Protocol", None) /\ UNCHANGED size
       [] q.reply.len \in 1 .. Limit[q.kind] /\ q.reply.form = "error" ->
            Return(c, ErrorOf(q), None) /\ UNCHANGED size
       [] q.reply.len \in 1 .. Limit[q.kind] /\ q.reply.form \notin {"garbage", "error"} ->
            CASE q.kind = "read" ->
                   /\ call' = [call EXCEPT ![c].phase = "payload",
                        ![c].want = IF q.reply.n = None THEN q.length ELSE q.reply.n]
                   /\ UNCHANGED <<versions, size, done, calls>>
              [] q.kind = "stat" /\ q.reply.form = "stat" ->
                   Return(c, "Ok", q.reply.n) /\ size' = q.reply.n
              [] q.kind = "sign" /\ q.reply.form = "jws" /\ q.reply.code # "empty" ->
                   Return(c, "Ok", q.reply.code) /\ UNCHANGED size
              [] OTHER -> Return(c, "Protocol", None) /\ UNCHANGED size

(* read_exact of the payload: all of it, or an error.                      *)

\* Faulty variant: what has come when the stream ends is the answer.
ReadPayload_Partial(c) ==
  LET q == call[c] IN
  /\ q # None /\ q.phase = "payload"
  /\ Return(c, "Ok", q.reply.payload)
  /\ UNCHANGED size

ReadPayload(c) ==
  LET q == call[c] IN
  /\ q # None /\ q.phase = "payload"
  /\ IF Len(q.reply.payload) = q.want
     THEN Return(c, "Ok", q.reply.payload)
     ELSE Return(c, "Io", None)
  /\ UNCHANGED size

Next ==
  \/ \E c \in Callers : Stat(c) \/ Sign(c) \/ Answer(c) \/ Lose(c) \/ ReadFrame(c) \/ ReadPayload(c)
  \/ \E c \in Callers, r \in Ranges : Read(c, r)
  \/ \E n \in Sizes : Replace(n)

Spec == Init /\ [][Next]_vars

-----------------------------------------------------------------------------
(* The bytes a range means on an asset of n bytes: the first and the one   *)
(* after the last.                                                         *)
Meant(r, n) ==
  CASE r.kind = "Bounded" -> <<Min({r.a, n}), Min({r.b, n})>>
    [] r.kind = "Offset"  -> <<Min({r.a, n}), n>>
    [] r.kind = "Suffix"  -> <<SaturatingSub(n, r.a), n>>
    [] r.kind = "Full"    -> <<0, n>>

(* What a read of the object store returns is one unbroken run of bytes of *)
(* one version the asset had while the read was under way, however the     *)
(* daemon fails or the asset is replaced meanwhile.  When that version has *)
(* the size the store was opened with, the run is all the range stands     *)
(* for, a suffix or a range that reaches past the end included.            *)
ReadIsWhatWasAsked ==
  \A c \in Callers :
    (done[c] # None /\ done[c].outcome = "Ok" /\ done[c].call.kind = "read") =>
      LET d == done[c] IN
      \E v \in d.call.since .. d.until :
        LET m == Meant(d.call.asked, versions[v]) IN
        IF versions[v] = size
        THEN d.value = Bytes(v, m[1], m[2] - m[1])
        ELSE d.value = Bytes(v, d.call.offset, Len(d.value))
=============================================================================

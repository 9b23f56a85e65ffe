---------------------------- MODULE ReorderBuffer ----------------------------
(***************************************************************************)
(* What a receive reorder table promises, with frames numbered without     *)
(* wrap and neither slots nor bitmap nor timer:                            *)
(*   phase  "closed" while no window is in force (no agreement, or its     *)
(*          start is still being checked), "stale" after host sleep,       *)
(*   next   the lowest number still waited for,                            *)
(*   held   the numbers above it that have come, gaps those of them the    *)
(*          firmware reported lost,                                        *)
(*   out    what the last step handed to the network stack.                *)
(* A slide may let frames go that the moved window still covers: the table *)
(* of mlan_11n_rxreorder.c does so when the sequence numbers wrap.         *)
(***************************************************************************)
EXTENDS Integers, Sequences

CONSTANT Width   \* how many numbers the window covers

VARIABLES phase, next, held, gaps, out

bvars == <<phase, next, held, gaps, out>>

Contents(s) == {s[i] : i \in DOMAIN s}
Ascending(s) == \A i, j \in DOMAIN s : i < j => s[i] < s[j]

(* The step hands over exactly the numbers in S, lowest first. *)
HandsOver(S) == Contents(out') = S /\ Ascending(out')

(* The window, now holding S with the gaps G, begins at s; next moves over *)
(* the run of consecutive numbers that starts there.                       *)
BeginsAt(s, S, G) ==
    /\ next' >= s
    /\ \A m \in s .. next' - 1 : m \in S
    /\ next' \notin S
    /\ held' = {m \in S : m >= next'}
    /\ gaps' = G \cap held'

BInit ==
    /\ phase = "closed" /\ next = 0
    /\ held = {} /\ gaps = {} /\ out = <<>>

MoveTo(s, S, G) ==
    /\ BeginsAt(s, S, G)
    /\ HandsOver((held \cup S) \ (held' \cup gaps \cup G))
    /\ UNCHANGED phase

(* A frame inside the window that was not there yet. *)
Take(n, G) ==
    /\ phase = "open"
    /\ n >= next /\ n < next + Width /\ n \notin held
    /\ MoveTo(next, held \cup {n}, gaps \cup G)

(* The window is moved up to s and holds N there: what lies below s leaves *)
(* and either nothing else or everything.                                  *)
Slide(s, N, G) ==
    /\ phase = "open"
    /\ s > next
    /\ \E kept \in {{m \in held : m >= s}, {}} :
         MoveTo(s, kept \cup N, (gaps \cap kept) \cup G)

(* The timer ran out: all that is held leaves. *)
ReleaseAll ==
    /\ held # {}
    /\ \A m \in held : m < next'
    /\ next' - 1 \in held
    /\ held' = {} /\ gaps' = {}
    /\ HandsOver(held \ gaps)
    /\ UNCHANGED phase

(* The timer ran out and the step that does the release also takes n. *)
ReleaseAndTake(n, G) ==
    /\ held # {}
    /\ \E m \in held : /\ \A k \in held : k <= m
                       /\ n > m /\ n <= m + Width
                       /\ Slide(m + 1, {n}, G)

(* A window comes into force at a start the peer's frames decide, or again *)
(* after host sleep: all that is held leaves, then perhaps the frame the   *)
(* window begins with.                                                     *)
Begin(s, N, G) ==
    /\ phase \in {"closed", "stale"}
    /\ phase' = "open"
    /\ BeginsAt(s, N, G)
    /\ \E k \in {0, 1} :
         LET first == SubSeq(out', 1, Len(out') - k)
             last == SubSeq(out', Len(out') - k + 1, Len(out'))
         IN  /\ k <= Len(out')
             /\ Contents(first) = held \ gaps /\ Ascending(first)
             /\ Contents(last) = {m \in N : m < next'} \ G

(* The agreement ends or is made again: all that is held leaves. *)
Close ==
    /\ phase' = "closed" /\ next' = 0 /\ held' = {} /\ gaps' = {}
    /\ HandsOver(held \ gaps)

Sleep == /\ phase = "open" /\ phase' = "stale"
         /\ UNCHANGED <<next, held, gaps>> /\ out' = <<>>

(* A late or repeated frame, or one that does not pass through the window. *)
Ignore == UNCHANGED <<phase, next, held, gaps>> /\ out' = <<>>

BNext ==
    \/ Ignore
    \/ Sleep
    \/ Close
    \/ ReleaseAll
    \/ \E n \in next .. next + Width - 1 : \E G \in {{}, {n}} : Take(n, G)
    \/ \E s \in next + 1 .. next' :
         \/ Slide(s, {}, {})
         \/ \E n \in {s + Width - 1} : \E G \in {{}, {n}} : Slide(s, {n}, G)
    \/ \E n \in next .. next + 2 * Width : \E G \in {{}, {n}} : ReleaseAndTake(n, G)
    \/ \E s \in {next' - 1, next'} :
         \/ Begin(s, {}, {})
         \/ \E n \in s .. s + Width : \E G \in {{}, {n}} : Begin(s, {n}, G)

BSpec == BInit /\ [][BNext]_bvars
=============================================================================

------------------------------ MODULE RxReorder ------------------------------
(***************************************************************************)
(* One block ack agreement as the host sees it: frames, block ack requests *)
(* and firmware drop reports reach the reorder table of RxWindow, the      *)
(* flush timer runs, the agreement is made, confirmed and torn down, and   *)
(* host sleep asks for a new start.  One action is one call; the           *)
(* interleaving inside the calls is the subject of RxProcess.              *)
(*                                                                         *)
(* The peer is a transmitter that obeys its window: it sends, and repeats, *)
(* numbers in base..base+WinSize-1 in any order, and moves base up when a  *)
(* frame was acknowledged or given up.  Any frame may be lost on the way.  *)
(* Frames are numbered without wrap; astart is the number start_win stands *)
(* for.                                                                    *)
(***************************************************************************)
EXTENDS RxWindow

CONSTANTS
    FirstFrame, \* where the peer's numbers begin
    MaxFrame,   \* bound: the peer's base stays below this number
    MaxSetups,  \* bound: agreements made in one behaviour
    Kinds,      \* what arrives: a subset of {"data", "amsdu", "bar", "drop"}
    Sleeps      \* whether the host may go to sleep

ASSUME ReorderAssumption ==
    /\ FirstFrame \in Nat /\ MaxFrame \in Nat /\ MaxSetups \in Nat
    /\ Kinds \subseteq {"data", "amsdu", "bar", "drop"}
    /\ Sleeps \in BOOLEAN

VARIABLES
    ba,         \* "none": no entry; otherwise its ba_status
    tbl,        \* the entry
    flush_data, \* pmadapter->flush_data
    base,       \* the peer's lowest outstanding frame
    astart,     \* the absolute number start_win stands for
    out,        \* frames the last step sent up through the window
    high,       \* highest of them since the window was last set
    early,      \* a frame left although the window still covered it
    setups

vars == <<ba, tbl, flush_data, base, astart, out, high, early, setups>>

Seq12(n) == n % SeqSpace

Frames == FirstFrame - WinSize .. MaxFrame + WinSize

(* The number congruent to q that is closest to n. *)
Near(q, n) ==
    CHOOSE x \in n - HalfSpace .. n + HalfSpace - 1 : (x - q) % SeqSpace = 0

Last(s) == s[Len(s)]
Elements(s) == {s[i] : i \in DOMAIN s}

Init ==
    /\ ba = "none"
    /\ tbl = NewTable(0, DEFAULT_SEQ_NUM)
    /\ flush_data = FALSE
    /\ base = FirstFrame
    /\ astart = base
    /\ out = <<>> /\ high = -1 /\ early = FALSE
    /\ setups = 0

-----------------------------------------------------------------------------
(* A call about frame n changed the table to r.tbl: the window statistics. *)
(* The new start is the frame start_win can stand for, close to n if the   *)
(* call set the window anew and to the old window otherwise.               *)
Account(r, n, fresh) ==
    LET start == Near(r.tbl.start_win, IF fresh THEN n ELSE astart + WinSize)
    IN  /\ tbl' = r.tbl
        /\ astart' = start
        /\ out' = r.out
        /\ early' = ((early /\ ~fresh) \/ \E m \in Elements(r.out) : m >= start)
        /\ high' = IF r.out # <<>> THEN Last(r.out)
                   ELSE IF fresh THEN -1 ELSE high

(* The call sets the window anew: the first one after host sleep. *)
SetsAnew(kind) ==
    /\ tbl.force_no_drop
    /\ ~(kind = "amsdu" /\ ~tbl.amsdu)

(* wlan_sta rx path: a frame, an AMSDU or a block ack request.  Without an *)
(* entry the frame is passed on as it is.                                  *)
Receive(n, kind) ==
    /\ kind \in Kinds \cap {"data", "amsdu", "bar"}
    /\ n <= MaxFrame
    /\ IF ba = "none"
       THEN /\ out' = <<>>
            /\ UNCHANGED <<tbl, astart, high, early>>
       ELSE Account(ReorderPkt(tbl, Seq12(n), kind, n), n, SetsAnew(kind))
    /\ UNCHANGED <<ba, flush_data, base, setups>>

ReceiveFrame ==
    \E n \in base .. base + WinSize - 1, kind \in {"data", "amsdu"} :
        Receive(n, kind)

ReceiveBar == Receive(base, "bar")

(* One bit of wlan_11n_rxba_sync_event: the firmware acknowledged n and    *)
(* then had to drop it.                                                    *)
RxBaSync(n) ==
    /\ "drop" \in Kinds
    /\ ba # "none" /\ ~tbl.force_no_drop
    /\ Account(ReorderPkt(tbl, Seq12(n), "data", FwDropped), n, FALSE)
    /\ UNCHANGED <<ba, flush_data, base, setups>>

(* The peer's window moves: it never runs further ahead of what the host   *)
(* has heard than half the sequence space, where old and new look alike.   *)
PeerAdvance ==
    /\ base < MaxFrame
    /\ ba # "none" /\ ~tbl.force_no_drop => base + WinSize < astart + HalfSpace
    /\ base' = base + 1
    /\ out' = <<>>
    /\ UNCHANGED <<ba, tbl, flush_data, astart, high, early, setups>>

-----------------------------------------------------------------------------
(* wlan_flush_data, the timer's callback. *)
TimerFires ==
    /\ ba # "none" /\ tbl.armed
    /\ flush_data' = TRUE
    /\ tbl' = [tbl EXCEPT !.flush_data = TRUE, !.timer_is_set = FALSE,
                          !.armed = FALSE]
    /\ out' = <<>>
    /\ UNCHANGED <<ba, base, astart, high, early, setups>>

(* mlan_rx_process: wlan_flush_rxreorder_tbl before the next packet. *)
FlushWork ==
    /\ flush_data
    /\ flush_data' = FALSE
    /\ IF ba = "none"
       THEN out' = <<>> /\ UNCHANGED <<tbl, astart, high, early>>
       ELSE Account(FlushIfAsked(tbl), astart, FALSE)
    /\ UNCHANGED <<ba, base, setups>>

-----------------------------------------------------------------------------
(* What priv->rx_seq[tid] may hold: a frame sent lately, or none. *)
RecentSeq ==
    {DEFAULT_SEQ_NUM} \cup {Seq12(n) : n \in base - 1 .. base}

(* wlan_11n_delete_rxreorder_tbl_entry: flush, stop the timer, free. *)
Deleted(t) == [DispatchWindow(t) EXCEPT !.tbl = StopTimer(@)]

(* wlan_cmd_11n_addba_rspgen accepts and wlan_11n_create_rxreorder_tbl     *)
(* makes the entry, after deleting one that is there.  The peer may still  *)
(* be sending frames it began before the agreement, and last, the frame    *)
(* priv->rx_seq[tid] remembers, is any it sent lately, or none.  An entry  *)
(* in progress makes wlan_11n_add_bastream ignore the request.             *)
AddBa(ssn, last) ==
    /\ setups < MaxSetups
    /\ ba # "inprogress"
    /\ ba' = "inprogress"
    /\ setups' = setups + 1
    /\ tbl' = NewTable(Seq12(ssn), last)
    /\ astart' = ssn
    /\ out' = IF ba = "none" THEN <<>> ELSE Deleted(tbl).out
    /\ high' = -1 /\ early' = FALSE
    /\ UNCHANGED <<flush_data, base>>

(* wlan_ret_11n_addba_resp: the firmware's answer, with the AMSDU bit. *)
AddBaResponse(ok, amsdu) ==
    /\ ba = "inprogress"
    /\ ba' = IF ok THEN "complete" ELSE "none"
    /\ tbl' = IF ok THEN [tbl EXCEPT !.amsdu = amsdu]
                    ELSE NewTable(0, DEFAULT_SEQ_NUM)
    /\ astart' = IF ok THEN astart ELSE base
    /\ out' = IF ok THEN <<>> ELSE Deleted(tbl).out
    /\ high' = IF ok THEN high ELSE -1
    /\ early' = IF ok THEN early ELSE FALSE
    /\ UNCHANGED <<flush_data, base, setups>>

(* mlan_11n_delete_bastream_tbl and the cleanup functions. *)
DelBa ==
    /\ ba # "none"
    /\ ba' = "none"
    /\ tbl' = NewTable(0, DEFAULT_SEQ_NUM)
    /\ astart' = base
    /\ out' = Deleted(tbl).out
    /\ high' = -1 /\ early' = FALSE
    /\ UNCHANGED <<flush_data, base, setups>>

(* wlan_host_sleep_activated_event: wlan_update_rxreorder_tbl sets the     *)
(* flag; the firmware consumes any number of frames while the host sleeps. *)
HostSleep(k) ==
    /\ Sleeps
    /\ ba # "none" /\ ~tbl.force_no_drop
    /\ tbl' = [tbl EXCEPT !.force_no_drop = TRUE]
    /\ base + k <= MaxFrame
    /\ base' = base + k
    /\ out' = <<>>
    /\ UNCHANGED <<ba, flush_data, astart, high, early, setups>>

Next ==
    \/ ReceiveFrame
    \/ ReceiveBar
    \/ \E n \in base .. base + WinSize - 1 : RxBaSync(n)
    \/ PeerAdvance
    \/ TimerFires
    \/ FlushWork
    \/ \E ssn \in {base, base + 1}, last \in RecentSeq : AddBa(ssn, last)
    \/ \E ok, amsdu \in BOOLEAN : AddBaResponse(ok, amsdu)
    \/ DelBa
    \/ \E k \in {0, WinSize} : HostSleep(k)

Spec == Init /\ [][Next]_vars

-----------------------------------------------------------------------------
(* Every field of the table holds what it can hold. *)
TypeOK ==
    /\ ba \in {"none", "inprogress", "complete"}
    /\ tbl.start_win \in 0 .. SeqSpace
    /\ tbl.rx_reorder_ptr \in [SlotIndex -> Frames \cup {Empty, FwDropped}]
    /\ tbl.bitmap \subseteq 0 .. BitmapBits - 1
    /\ tbl.pkt_count \in 0 .. WinSize
    /\ flush_data \in BOOLEAN
    /\ base \in Frames
    /\ high \in Frames \cup {-1} /\ early \in BOOLEAN
    /\ setups \in 0 .. MaxSetups

Held == {astart + i : i \in Occupied(tbl.rx_reorder_ptr)}
InForce == ba # "none" /\ ~tbl.check_start_win

(* The slot a frame sits in is its distance from the window's start: the   *)
(* wrap branches of the old test, the slide, the slot index and the        *)
(* rotation together never file a frame under another number.  The bitmap  *)
(* that decides over the timer has a bit for exactly the slots in use.     *)
SlotsPlaced ==
    /\ InForce =>
         /\ (astart - tbl.start_win) % SeqSpace = 0
         /\ \A i \in SlotIndex :
              tbl.rx_reorder_ptr[i] \in {Empty, FwDropped, astart + i}
    /\ ba # "none" => tbl.bitmap = Occupied(tbl.rx_reorder_ptr)

(* A frame is refused exactly when the window has passed it or holds it    *)
(* already: neither branch of the old test takes a new frame for an old    *)
(* one or the reverse.                                                     *)
RefusesExactly ==
    InForce /\ ~tbl.force_no_drop /\ ~tbl.flush_data =>
        \A n \in base .. base + WinSize - 1 :
            ReorderPkt(tbl, Seq12(n), "data", n).ok <=> n >= astart /\ n \notin Held

(* A frame that is held back has the timer running or a flush asked for:   *)
(* it never depends on another frame to come.                              *)
HeldIsTimed ==
    ba # "none" /\ Occupied(tbl.rx_reorder_ptr) # {} =>
        tbl.armed \/ (tbl.flush_data /\ flush_data)

OrderedStep ==
    /\ \A i, j \in DOMAIN out' : i < j => out'[i] < out'[j]
    /\ \A i \in DOMAIN out' : out'[i] > high

(* Frames leave in the order of their numbers, each once, except after     *)
(* wlan_11n_dispatch_pkt_until_start_win let frames go early at the wrap.   *)
InOrderUnlessEarly ==
    [][tbl.force_no_drop \/ early \/ early' \/ OrderedStep]_vars

(* A block ack request moves the window to the number it names and on over *)
(* what is held from there, never past a frame the peer may still send.    *)
BarStopsAtItsNumber ==
    [][/\ InForce /\ ~tbl.force_no_drop /\ ~tbl.flush_data
       /\ astart' > astart
       /\ ReceiveBar
       => \A n \in base .. astart' - 1 : n \in Held]_vars

Buffer ==
    INSTANCE ReorderBuffer WITH
        Width <- WinSize,
        phase <- IF ~InForce THEN "closed"
                 ELSE IF tbl.force_no_drop THEN "stale" ELSE "open",
        next <- IF InForce THEN astart ELSE 0,
        held <- Held,
        gaps <- {astart + i : i \in {j \in SlotIndex :
                                tbl.rx_reorder_ptr[j] = FwDropped}}

(* The table implements the reorder buffer without wrap, slots and timer. *)
ImplementsBuffer == Buffer!BSpec
=============================================================================

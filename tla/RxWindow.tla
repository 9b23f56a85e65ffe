------------------------------ MODULE RxWindow ------------------------------
(***************************************************************************)
(* The receive reorder table of one (transmitter, TID) pair and what       *)
(* mlan_11n_rxreorder_pkt does to it (mlan/mlan_11n_rxreorder.c).  A table *)
(* is a record with the fields of struct _RxReorderTbl; every operator     *)
(* takes the table before a call and yields the table after it with the    *)
(* frames the call handed to wlan_11n_dispatch_pkt, in that order:         *)
(*   out     frames that left through the window,                          *)
(*   direct  a frame that was passed on without entering it,               *)
(*   ok      the call's return status.                                     *)
(* A frame is named by its absolute number; the code only sees the number  *)
(* modulo SeqSpace.  Both the 12 bit arithmetic and the branches that deal *)
(* with its wrap are the code's own.                                       *)
(***************************************************************************)
EXTENDS Integers, Sequences, FiniteSets

CONSTANTS
    SeqSpace,    \* MAX_TID_VALUE (4096): sequence numbers are 0..SeqSpace-1
    HalfSpace,   \* TWOPOW11 (2048)
    WinSize,     \* win_size granted in the ADDBA response
    BitmapBits   \* width of RxReorderTbl.bitmap (64)

ASSUME WindowAssumption ==
    /\ SeqSpace \in Nat /\ HalfSpace \in Nat /\ WinSize \in Nat
    /\ BitmapBits \in Nat \ {0}
    /\ SeqSpace = 2 * HalfSpace
    /\ 2 <= WinSize /\ WinSize < HalfSpace

Empty == -1         \* MNULL in rx_reorder_ptr
FwDropped == -2     \* RX_PKT_DROPPED_IN_FW: holds the place of a lost frame
DEFAULT_SEQ_NUM == 16 * SeqSpace - 1      \* 0xffff, no frame seen yet
SlotIndex == 0 .. WinSize - 1

Plus(a, b) == (a + b) % SeqSpace          \* (a + b) & (MAX_TID_VALUE - 1)

NoSlots == [i \in SlotIndex |-> Empty]
Occupied(slot) == {i \in SlotIndex : slot[i] # Empty}

(* What wlan_11n_create_rxreorder_tbl leaves in a new entry. *)
NewTable(ssn, last) ==
    [start_win |-> ssn, rx_reorder_ptr |-> NoSlots, bitmap |-> {},
     check_start_win |-> TRUE, pkt_count |-> 0, last_seq |-> last,
     force_no_drop |-> FALSE, flush_data |-> FALSE, amsdu |-> FALSE,
     timer_is_set |-> FALSE, armed |-> FALSE]

(* MLAN_SET_BIT shifts a 64 bit one: the shift count is taken modulo the   *)
(* width on the 64 bit builds.                                             *)
SetBit(bitmap, k) == bitmap \cup {k % BitmapBits}
ShiftBits(bitmap, n) ==
    IF n < BitmapBits THEN {k - n : k \in {j \in bitmap : j >= n}} ELSE {}

\* Mutant: the slots above the dispatched ones move one place too far.
RotateFar(slot, n) ==
    [i \in SlotIndex |-> IF i + n + 1 < WinSize THEN slot[i + n + 1] ELSE Empty]

(* The rotation that simulates a circular buffer. *)
Rotate(slot, n) ==
    [i \in SlotIndex |-> IF i + n < WinSize THEN slot[i + n] ELSE Empty]

(* wlan_11n_dispatch_pkt on slots 0..n-1: a firmware-dropped place is     *)
(* skipped, an empty one is not dispatched.                                *)
Dispatched(slot, n) ==
    SelectSeq([i \in 1 .. n |-> slot[i - 1]], LAMBDA p : p >= 0)

Moved(t, n, start) ==
    [t EXCEPT !.rx_reorder_ptr = Rotate(@, n),
              !.bitmap = ShiftBits(@, n),
              !.start_win = start]

Result(t, out, direct, ok) ==
    [tbl |-> t, out |-> out, direct |-> direct, ok |-> ok]

-----------------------------------------------------------------------------
(* wlan_11n_dispatch_pkt_until_start_win: the exact distance when the new  *)
(* start is numerically larger, the whole window otherwise.                *)
NoPktToSend(t, start) ==
    IF start > t.start_win
    THEN IF start - t.start_win < WinSize THEN start - t.start_win ELSE WinSize
    ELSE WinSize

DispatchUntilStartWin(t, start) ==
    LET n == NoPktToSend(t, start)
    IN  Result(Moved(t, n, start), Dispatched(t.rx_reorder_ptr, n), <<>>, TRUE)

(* wlan_11n_scan_and_dispatch: everything from slot 0 up to the first hole. *)
RunLength(slot) ==
    CHOOSE n \in 0 .. WinSize :
        /\ \A i \in 0 .. n - 1 : slot[i] # Empty
        /\ n < WinSize => slot[n] = Empty

ScanAndDispatch(t) ==
    LET n == RunLength(t.rx_reorder_ptr)
    IN  Result(Moved(t, n, Plus(t.start_win, n)),
               Dispatched(t.rx_reorder_ptr, n), <<>>, TRUE)

\* Mutant: the flush stops short of the last frame held.
StartFlushDataShort(t) ==
    LET used == Occupied(t.rx_reorder_ptr)
        last == CHOOSE i \in used : \A j \in used : j <= i
    IN  IF used = {} \/ last = 0
        THEN Result(t, <<>>, <<>>, TRUE)
        ELSE DispatchUntilStartWin(t, Plus(t.start_win, last))

(* wlan_start_flush_data: up to and including the last occupied slot, as   *)
(* wlan_11n_find_last_seqnum finds it.                                     *)
StartFlushData(t) ==
    LET used == Occupied(t.rx_reorder_ptr)
        last == CHOOSE i \in used : \A j \in used : j <= i
    IN  IF used = {}
        THEN Result(t, <<>>, <<>>, TRUE)
        ELSE DispatchUntilStartWin(t, Plus(t.start_win, last + 1))

(* A pending flush of this table, done and acknowledged. *)
FlushIfAsked(t) ==
    IF t.flush_data THEN StartFlushData([t EXCEPT !.flush_data = FALSE])
                    ELSE Result(t, <<>>, <<>>, TRUE)

(* The flush of the whole window in wlan_11n_delete_rxreorder_tbl_entry    *)
(* and in the force_no_drop branch.                                        *)
DispatchWindow(t) == DispatchUntilStartWin(t, Plus(t.start_win, WinSize))

-----------------------------------------------------------------------------
StopTimer(t) == [t EXCEPT !.armed = FALSE, !.timer_is_set = FALSE]

TimerRestart(t) == [t EXCEPT !.armed = TRUE, !.timer_is_set = TRUE]

\* Mutant: the timer is restarted only when the window moves.
DoneMovedOnly(t, prev_start_win) ==
    IF t.bitmap = {}
    THEN IF t.timer_is_set THEN StopTimer(t) ELSE t
    ELSE IF prev_start_win # t.start_win THEN TimerRestart(t) ELSE t

(* The code at label done: the timer runs exactly while the bitmap is not  *)
(* zero, and starts again when the window has moved.                       *)
Done(t, prev_start_win) ==
    IF t.bitmap = {}
    THEN IF t.timer_is_set THEN StopTimer(t) ELSE t
    ELSE IF ~t.timer_is_set \/ prev_start_win # t.start_win
         THEN TimerRestart(t) ELSE t

-----------------------------------------------------------------------------
(* The check_start_win phase after ADDBA.  Until the first frame with the  *)
(* announced number, or half a window of others, has come, frames are      *)
(* passed on as they arrive.                                               *)
StillChecking(t, seq) ==
    /\ t.check_start_win
    /\ seq # t.start_win
    /\ t.pkt_count + 1 < WinSize \div 2

Forward(t, seq, payload) ==
    LET u == [t EXCEPT !.pkt_count = @ + 1]
    IN  IF t.last_seq = seq
        THEN Result(u, <<>>, <<>>, FALSE)
        ELSE Result([u EXCEPT !.last_seq = seq], <<>>, payload, TRUE)

LastSeqInWindow(t) ==
    LET end_win == Plus(t.start_win, WinSize - 1)
    IN  \/ /\ end_win > t.start_win
           /\ t.last_seq >= t.start_win /\ t.last_seq < end_win
        \/ /\ end_win < t.start_win
           /\ t.last_seq >= t.start_win \/ t.last_seq < end_win

EndCheck(t, seq) ==
    LET u == [t EXCEPT !.check_start_win = FALSE]
        v == [u EXCEPT !.pkt_count = @ + 1]
    IN  CASE ~t.check_start_win -> t
          [] t.check_start_win /\ seq = t.start_win -> u
          [] t.check_start_win /\ seq # t.start_win ->
               IF /\ t.last_seq # DEFAULT_SEQ_NUM
                  /\ \/ LastSeqInWindow(t)
                     \/ seq < t.start_win /\ seq > t.last_seq
               THEN [v EXCEPT !.start_win = t.last_seq + 1]
               ELSE v

\* Mutant: the held frames are not sent up before the window is set anew.
ResyncKeeps(t, seq, isBar) ==
    IF t.force_no_drop /\ ~isBar
    THEN Result(TimerRestart([t EXCEPT !.start_win = seq]), <<>>, <<>>, TRUE)
    ELSE Result(t, <<>>, <<>>, TRUE)

(* The force_no_drop branch, taken once after host sleep. *)
Resync(t, seq, isBar) ==
    LET d == DispatchWindow(t)
        u == IF isBar THEN d.tbl ELSE [d.tbl EXCEPT !.start_win = seq]
    IN  IF t.force_no_drop
        THEN [d EXCEPT !.tbl = TimerRestart(u)]
        ELSE Result(t, <<>>, <<>>, TRUE)

\* Mutant: the test without the branch for the wrap.
IsOldNoWrap(start, seq) == seq < start \/ seq >= start + HalfSpace

-----------------------------------------------------------------------------
(* The window arithmetic: old or new, inside or beyond, the start a frame  *)
(* beyond the window moves it to, and the slot a number belongs to.        *)
IsOld(start, seq) ==
    IF start + HalfSpace > SeqSpace - 1
    THEN seq >= Plus(start, HalfSpace) /\ seq < start
    ELSE seq < start \/ seq >= start + HalfSpace

IsBeyond(start, seq) ==
    LET end == Plus(start, WinSize - 1)
    IN  \/ end < start /\ seq < start /\ seq > end
        \/ end > start /\ (seq > end \/ seq < start)

SlidStart(seq) ==
    IF seq - WinSize + 1 >= 0 THEN seq - WinSize + 1
                              ELSE SeqSpace - (WinSize - seq) + 1

SlotOf(start, seq) == IF seq >= start THEN seq - start ELSE seq + SeqSpace - start

Store(t, seq, payload) ==
    LET k == SlotOf(t.start_win, seq)
    IN  [t EXCEPT !.rx_reorder_ptr[k] = payload, !.bitmap = SetBit(@, k)]

\* Mutant: the request is taken to name the frame before the window.
BarSeqPast(seq) == Plus(seq, WinSize)

(* A block ack request names the window's start, a frame its end. *)
BarSeq(seq) == Plus(seq, WinSize - 1)

(* From the old-frame test to label done. *)
Place(t, seq, isBar, payload) ==
    LET start == t.start_win
        nodrop == t.force_no_drop
        u == [t EXCEPT !.force_no_drop = FALSE]
        seq2 == IF isBar THEN BarSeq(seq) ELSE seq
        slid == IF IsBeyond(start, seq2)
                THEN DispatchUntilStartWin(u, SlidStart(seq2))
                ELSE Result(u, <<>>, <<>>, TRUE)
        k == SlotOf(slid.tbl.start_win, seq2)
        scan == ScanAndDispatch(IF isBar THEN slid.tbl
                                ELSE Store(slid.tbl, seq2, payload))
    IN  CASE ~nodrop /\ IsOld(start, seq) -> Result(u, <<>>, <<>>, FALSE)
          [] (nodrop \/ ~IsOld(start, seq)) /\ ~isBar
             /\ slid.tbl.rx_reorder_ptr[k] # Empty ->
               Result(slid.tbl, slid.out, <<>>, FALSE)
          [] OTHER -> Result(scan.tbl, slid.out \o scan.out, <<>>, TRUE)

(* mlan_11n_rxreorder_pkt with a table: kind is "data", "amsdu" or "bar". *)
ReorderPkt(t, seq, kind, payload) ==
    LET isBar == kind = "bar"
        asIs == IF isBar \/ payload = FwDropped THEN <<>> ELSE <<payload>>
        f == FlushIfAsked(t)
        fwd == Forward(f.tbl, seq, asIs)
        r == Resync(EndCheck(f.tbl, seq), seq, isBar)
        p == Place(r.tbl, seq, isBar, payload)
    IN  CASE kind = "amsdu" /\ ~f.tbl.amsdu ->
               [f EXCEPT !.direct = asIs]
          [] ~(kind = "amsdu" /\ ~f.tbl.amsdu) /\ StillChecking(f.tbl, seq) ->
               [fwd EXCEPT !.out = f.out]
          [] OTHER ->
               Result(Done(p.tbl, r.tbl.start_win),
                      f.out \o r.out \o p.out, <<>>, p.ok)
=============================================================================

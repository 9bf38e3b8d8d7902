----------------------------- MODULE IoRxThread -----------------------------
(***************************************************************************)
(* The PACKET_MMAP receive path of one interface.  With an RX thread       *)
(* (io_packet_mmap_thread_rx_run_fn in src/code/bngblaster/src/io/         *)
(* io_packet_mmap.c) each frame goes through io_thread_rx_handler          *)
(* (io/io_thread.c): it is counted in io->stats, stream packets are        *)
(* handled on the thread by bbl_rx_thread, and every other frame is        *)
(* redirected into the thread's TXQ, which io_thread_main_rx_job drains on *)
(* the main loop.  Without a thread, io_packet_mmap_rx_job does all of it  *)
(* on the main loop.                                                       *)
(*                                                                         *)
(* A frame is abstracted to its number and its kind, the outcome of        *)
(* packet_is_bbl, decode_ethernet, bbl_rx_thread and the                   *)
(* BBL_TXQ_BUFFER_LEN check:                                               *)
(*   "stream"   BBL, decodes, taken by bbl_rx_thread;                      *)
(*   "bblother" BBL, decodes, not taken by bbl_rx_thread;                  *)
(*   "bblbad"   BBL magic, but decode_ethernet fails;                      *)
(*   "ctrl"     not BBL, decodes;                                          *)
(*   "junk"     not BBL, does not decode;                                  *)
(*   "big"      not BBL, decodes, longer than a TXQ slot.                  *)
(* The TXQ (bbl_txq.c, an SPSC ring) is a bounded FIFO.                    *)
(***************************************************************************)
EXTENDS Naturals, Sequences, FiniteSets

CONSTANTS
    FrameNr,    \* io->req.tp_frame_nr of the RX ring
    TxqSize,    \* slots of the thread TXQ
    Modes,      \* possible values of threaded
    Kinds,      \* frame kinds the network delivers
    MaxFrames,  \* frames received in a behaviour (model bound)
    MaxCount    \* times one frame may be counted (bounds IO_FULL retries)

Slots == 0..FrameNr-1
Frames == 1..MaxFrames
Decodes(k) == k \in {"stream", "bblother", "ctrl", "big"}
IsBbl(k) == k \in {"stream", "bblother", "bblbad"}

VARIABLES
    rx_status,  \* tp_status of each RX frame: "KERNEL" or "USER"
    rx_frame,   \* frame number held by each slot
    kind,       \* kind of each frame that arrived
    khead,      \* the kernel's RX ring head
    cursor,     \* the RX loop's cursor
    arrived,    \* frames the kernel put into the ring so far
    txq,        \* the thread TXQ: frame numbers, oldest first
    counted,    \* io->stats.packets increments, per frame
    errors,     \* io->stats.unknown / protocol_errors increments, per frame
    fate,       \* per frame: "thread", "main", "error", "dropped" or "none"
    threaded    \* the interface has an RX thread (io->thread != NULL)

rx_vars == <<rx_status, rx_frame, kind, khead, cursor, arrived, txq, counted,
             errors, fate, threaded>>

-----------------------------------------------------------------------------
(* The kernel receives a frame into the slot at its head, if it is free.   *)
KernelRx ==
    /\ arrived < MaxFrames /\ rx_status[khead] = "KERNEL"
    /\ \E k \in Kinds :
          kind' = [kind EXCEPT ![arrived + 1] = k]
    /\ rx_status' = [rx_status EXCEPT ![khead] = "USER"]
    /\ rx_frame' = [rx_frame EXCEPT ![khead] = arrived + 1]
    /\ arrived' = arrived + 1
    /\ khead' = (khead + 1) % FrameNr
    /\ UNCHANGED <<threaded, cursor, txq, counted, errors, fate>>

(* The frame under the cursor of the RX loop.                              *)
Cur == rx_frame[cursor]

(* Returning the slot without wrapping the cursor (mutant).                *)
ReturnSlotNoWrap ==
    /\ rx_status' = [rx_status EXCEPT ![cursor] = "KERNEL"]
    /\ cursor' = cursor + 1

(* Return the slot to the kernel and advance the cursor.                   *)
ReturnSlot ==
    /\ rx_status' = [rx_status EXCEPT ![cursor] = "KERNEL"]
    /\ cursor' = (cursor + 1) % FrameNr

Count(f, id) == [f EXCEPT ![id] = @ + 1]

-----------------------------------------------------------------------------
(* io_thread_rx_handler on the RX thread for the frame under the cursor,   *)
(* and what io_packet_mmap_thread_rx_run_fn does with its result.          *)

(* A stream packet: counted, decoded, bbl_rx_thread takes it.             *)
ThreadRxStream ==
    /\ threaded /\ rx_status[cursor] = "USER" /\ kind[Cur] = "stream"
    /\ counted' = Count(counted, Cur)
    /\ fate' = [fate EXCEPT ![Cur] = "thread"]
    /\ ReturnSlot
    /\ UNCHANGED <<threaded, rx_frame, kind, khead, arrived, txq, errors>>

(* Any other frame: counted, a BBL frame that fails to decode counted as   *)
(* unknown / protocol error, then redirect.                                *)
ThreadRxErrors(id) ==
    IF IsBbl(kind[id]) /\ ~Decodes(kind[id]) THEN Count(errors, id) ELSE errors

(* redirect: the frame does not fit a TXQ slot: IO_ERROR, dropped.         *)
ThreadRxOversize ==
    /\ threaded /\ rx_status[cursor] = "USER" /\ kind[Cur] = "big"
    /\ counted' = Count(counted, Cur)
    /\ fate' = [fate EXCEPT ![Cur] = "dropped"]
    /\ ReturnSlot
    /\ UNCHANGED <<threaded, rx_frame, kind, khead, arrived, txq, errors>>

(* redirect writes the frame into the TXQ: IO_REDIRECT.                    *)
ThreadRxRedirect ==
    /\ threaded /\ rx_status[cursor] = "USER"
    /\ kind[Cur] \notin {"stream", "big"}
    /\ Len(txq) < TxqSize
    /\ counted' = Count(counted, Cur)
    /\ errors' = ThreadRxErrors(Cur)
    /\ txq' = Append(txq, Cur)
    /\ ReturnSlot
    /\ UNCHANGED <<threaded, rx_frame, kind, khead, arrived, fate>>

(* An IO_FULL result handled as if the frame were done (mutant).           *)
ThreadRxFullDrop ==
    /\ threaded /\ rx_status[cursor] = "USER"
    /\ kind[Cur] \notin {"stream", "big"}
    /\ Len(txq) = TxqSize
    /\ counted' = Count(counted, Cur)
    /\ errors' = ThreadRxErrors(Cur)
    /\ ReturnSlot
    /\ UNCHANGED <<threaded, rx_frame, kind, khead, arrived, txq, fate>>

(* The TXQ is full: IO_FULL.  The loop breaks without returning the slot;  *)
(* the same frame goes through io_thread_rx_handler again next time.       *)
ThreadRxFull ==
    /\ threaded /\ rx_status[cursor] = "USER"
    /\ kind[Cur] \notin {"stream", "big"}
    /\ Len(txq) = TxqSize
    /\ counted[Cur] < MaxCount
    /\ counted' = Count(counted, Cur)
    /\ errors' = ThreadRxErrors(Cur)
    /\ UNCHANGED <<threaded, rx_status, rx_frame, kind, khead, cursor, arrived,
                   txq, fate>>

-----------------------------------------------------------------------------
(* io_thread_main_rx_job handling the oldest TXQ slot without advancing    *)
(* the read index (mutant).                                                *)
MainRxSlotNoAdvance ==
    /\ threaded /\ txq # << >>
    /\ LET id == Head(txq) IN
          /\ errors' = IF Decodes(kind[id]) THEN errors ELSE Count(errors, id)
          /\ fate' = [fate EXCEPT ![id] = IF Decodes(kind[id]) THEN "main"
                                                                ELSE "error"]
    /\ UNCHANGED <<threaded, rx_status, rx_frame, kind, khead, cursor, arrived,
                   txq, counted>>

(* io_thread_main_rx_job, one TXQ slot: decode again; bbl_rx_handler on    *)
(* success, else count unknown / protocol error; bbl_txq_read_next.        *)
MainRxSlot ==
    /\ threaded /\ txq # << >>
    /\ LET id == Head(txq) IN
          /\ errors' = IF Decodes(kind[id]) THEN errors ELSE Count(errors, id)
          /\ fate' = [fate EXCEPT ![id] = IF Decodes(kind[id]) THEN "main"
                                                                ELSE "error"]
    /\ txq' = Tail(txq)
    /\ UNCHANGED <<threaded, rx_status, rx_frame, kind, khead, cursor, arrived,
                   counted>>

(* io_packet_mmap_rx_job advancing the cursor without handing the slot    *)
(* back to the kernel (mutant).                                            *)
MainRxFrameKeepOwnership ==
    /\ ~threaded /\ rx_status[cursor] = "USER"
    /\ counted' = Count(counted, Cur)
    /\ errors' = IF Decodes(kind[Cur]) THEN errors ELSE Count(errors, Cur)
    /\ fate' = [fate EXCEPT ![Cur] = IF Decodes(kind[Cur]) THEN "main"
                                                          ELSE "error"]
    /\ cursor' = (cursor + 1) % FrameNr
    /\ UNCHANGED <<threaded, rx_status, rx_frame, kind, khead, arrived, txq>>

(* io_packet_mmap_rx_job (no RX thread), one frame: count, decode,         *)
(* bbl_rx_handler or count the error, return the slot.                     *)
MainRxFrame ==
    /\ ~threaded /\ rx_status[cursor] = "USER"
    /\ counted' = Count(counted, Cur)
    /\ errors' = IF Decodes(kind[Cur]) THEN errors ELSE Count(errors, Cur)
    /\ fate' = [fate EXCEPT ![Cur] = IF Decodes(kind[Cur]) THEN "main"
                                                          ELSE "error"]
    /\ ReturnSlot
    /\ UNCHANGED <<threaded, rx_frame, kind, khead, arrived, txq>>

(* No frame under the cursor: the RX thread sleeps and looks again, the   *)
(* main-loop job polls the kernel and returns.                             *)
RxIdle ==
    /\ rx_status[cursor] # "USER"
    /\ UNCHANGED rx_vars

RxInit ==
    /\ rx_status = [i \in Slots |-> "KERNEL"]
    /\ rx_frame = [i \in Slots |-> 0]
    /\ kind = [id \in Frames |-> "none"]
    /\ khead = 0 /\ cursor = 0 /\ arrived = 0
    /\ txq = << >>
    /\ counted = [id \in Frames |-> 0]
    /\ errors = [id \in Frames |-> 0]
    /\ fate = [id \in Frames |-> "none"]
    /\ threaded \in Modes

(* The RX thread's loop, one frame or one idle look.                       *)
ThreadStep ==
    ThreadRxStream \/ ThreadRxOversize \/ ThreadRxRedirect \/ ThreadRxFull

(* The main loop's RX work: io_thread_main_rx_job or io_packet_mmap_rx_job. *)
MainStep == MainRxSlot \/ MainRxFrame

RxNext == KernelRx \/ ThreadStep \/ MainStep \/ RxIdle

(* The RX thread runs while thread->active; the main loop's RX job is a    *)
(* periodic timer.  Neither waits on the other.                            *)
RxFairness == WF_rx_vars(ThreadStep) /\ WF_rx_vars(MainStep)

RxSpec == RxInit /\ [][RxNext]_rx_vars /\ RxFairness

-----------------------------------------------------------------------------
Fates == {"thread", "main", "error", "dropped", "none"}

IoRxTypeOK ==
    /\ rx_status \in [Slots -> {"KERNEL", "USER"}]
    /\ rx_frame \in [Slots -> 0..MaxFrames]
    /\ kind \in [Frames -> Kinds \cup {"none"}]
    /\ khead \in Slots /\ cursor \in Slots /\ arrived \in 0..MaxFrames
    /\ txq \in Seq(Frames) /\ Len(txq) <= TxqSize
    /\ counted \in [Frames -> 0..MaxCount + 1]
    /\ errors \in [Frames -> 0..MaxCount + 2]
    /\ fate \in [Frames -> Fates]
    /\ threaded \in BOOLEAN

(* Spec 4.B/5, redirect and io_thread_main_rx_job: the TXQ carries each    *)
(* redirected frame once, in the order received, and the main loop never   *)
(* handles a frame while an older redirected one still waits in the TXQ.   *)
RedirectInOrder ==
    \A i \in 1..Len(txq) :
        /\ fate[txq[i]] = "none"
        /\ \A j \in 1..Len(txq) : i < j => txq[i] < txq[j]
        /\ \A id \in Frames : fate[id] \in {"main", "error"} => id < txq[i]

(* Spec 4.F: every frame the kernel puts into the RX ring is eventually    *)
(* handled: by bbl_rx_thread, by the main loop, counted as an error, or    *)
(* dropped as too long for the TXQ; an IO_FULL TXQ only delays it.         *)
EveryFrameHandled ==
    <>[](\A id \in 1..arrived : fate[id] # "none")

(* Per-interface stats: io->stats.packets counts every received frame      *)
(* once.                                                                   *)
CountedOnce == \A id \in Frames : counted[id] <= 1

(* The same for an interface without an RX thread: io_packet_mmap_rx_job   *)
(* counts a frame and hands its slot back in one pass, so the slot is not  *)
(* seen again until the kernel refilled it.                                *)
MainCountedOnce == ~threaded => CountedOnce

(* Per-interface stats: io->stats.unknown / protocol_errors count an       *)
(* undecodable frame once.                                                 *)
ErrorsCountedOnce == \A id \in Frames : errors[id] <= 1

====

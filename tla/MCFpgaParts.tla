---------------------------- MODULE MCFpgaParts -----------------------------
(* Parts of the FPGA that do not share state, one of them in a behaviour. *)
EXTENDS UsbTx, StatusPoll, AsyncFifo

VARIABLE part
parts == <<part, usb, polling, fifo>>

Init ==
    /\ part \in {"usb_tx", "snapshot", "async_fifo"}
    /\ UsbInit /\ PollInit /\ FifoInit
    /\ part # "async_fifo" =>
           show_ahead

UsbTxNext      == part = "usb_tx" /\ UsbNext /\ UNCHANGED <<part, polling, fifo>>
StatusPollNext == part = "snapshot" /\ PollNext /\ UNCHANGED <<part, usb, fifo>>
AsyncFifoNext  == part = "async_fifo" /\ FifoNext /\ UNCHANGED <<part, usb, polling>>
Next == UsbTxNext \/ StatusPollNext \/ AsyncFifoNext

(* Fairness: all clocks run; the FT600 is ready again and again, as long as the
   host reads; the FIFO's reader asks for words and a reset reaches both sides.
   Nothing obliges the queue to be filled, the FIFO to be written or cleared. *)
Usb(action) == part = "usb_tx" /\ action /\ UNCHANGED <<part, polling, fifo>>
Copies(action) == part = "snapshot" /\ action /\ UNCHANGED <<part, usb, poll, from, fifo>>
Fifos(action) == part = "async_fifo" /\ action /\ UNCHANGED <<part, usb, polling>>
FairSpec ==
    /\ Init /\ [][Next]_parts
    /\ WF_parts(Usb(ReadyCycle))
    /\ WF_parts(Copies(SourceClock)) /\ WF_parts(Copies(DestinationClock))
    /\ WF_parts(Fifos(Writing)) /\ WF_parts(Fifos(Taking))
    /\ WF_parts(Fifos(DropClear)) /\ WF_parts(Fifos(ResetFollows))

(* Nothing gets stuck: a transfer that can start does and ends, a new copy of a
   statistic always comes, and a word that was written is read. *)
AllMoves == TransfersRun /\ Refreshed /\ WordsArrive
=============================================================================

----------------------------- MODULE MCDownlink -----------------------------
(* A small instance of Downlink: MaxSent bounds the frames the host sends. *)
(* Before it starts, TLC evaluates the frame sizes, for every length that  *)
(* the USB side submits and every RX_FSIZE that is accepted.               *)
EXTENDS Downlink, FrameSizes

CONSTANT MaxSent

MCNext == Next /\ (sent' <= MaxSent)

MCFairSpec == Init /\ [][MCNext]_vars /\ WF_vars(TxTask)

ASSUME RoundedToNextMultiple ==
    \A n \in 0..2000 : Round4(n) = CHOOSE m \in n..(n + 3) : m % 4 = 0

ASSUME BurstsFitOnBothWays ==
    \A crc \in BOOLEAN :
        /\ \A len \in Submitted : Writable(len) =>
             Fits(WriteBurst(crc, WriteBody(len))) /\ EthLen(PeerFsize(len)) = Padded(len)
        /\ \A fsize \in 0..2000 : GoodFsize(fsize) => Fits(ReadBurst(crc, ReadBody(fsize)))

\* What is written finds as much room as it takes, header and FCS included.
ASSUME RoomIsEnough ==
    \A len \in Submitted, space \in 0..800 :
        Writable(len) /\ HasRoom(len, space) => PeerFsize(len) <= 2 * space
=============================================================================

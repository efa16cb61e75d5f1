----------------------------- MODULE FrameSizes -----------------------------
(***************************************************************************)
(* How long a frame is on its way through the driver, in bytes: in the USB *)
(* buffer, in the FIFO of the ADIN2111, in an SPI burst.  Lengths are      *)
(* uint16_t in the code; sums are taken modulo 2^16 where it stores them   *)
(* in one.  SPI errors are SpiPort's concern, the retries Downlink's.      *)
(***************************************************************************)
EXTENDS Integers

\* adin2111_regs.h, adin2111.c, app_config.h, adin2111_port_stm32.c
HeaderLen   == 2
FcsLen      == 4
MaxEthFrame == 1520           \* ADIN_MAX_ETH_FRAME
MaxFrameLen == 1536           \* NET_MAX_FRAME_LEN: a pool buffer
MaxBurst    == 8 + 1536       \* ADIN_SPI_MAXBURST: the scratch buffers
XferMax     == MaxFrameLen + 16   \* ADIN_SPI_XFER_MAX: s_rx_sink

Uint16 == {n \in Nat : n < 65536}
U16(n) == n % 65536

\* "& ~3u" clears two bits.
Round4(len) == U16(4 * ((len + 3) \div 4))

\* adin_build_header; crc: dev->crc_enabled
CommandLen(crc) == IF crc THEN 3 ELSE 2

(* adin_fifo_write and adin_fifo_read, which has a turnaround byte: the    *)
(* length of the burst, and whether the scratch buffers have room for it.  *)
WriteBurst(crc, body) == CommandLen(crc) + body
ReadBurst(crc, body)  == CommandLen(crc) + 1 + body
Fits(burst)           == burst <= MaxBurst

-----------------------------------------------------------------------------
(* adin2111_write_frame, for a frame of len bytes *)

Padded(len)    == IF len < 60 THEN 60 ELSE len
WriteBody(len) == Round4(U16(Padded(len) + HeaderLen))
TxFsize(len)   == Padded(len) + HeaderLen

\* Otherwise ERR_PARAM, ERR_NOSPACE; space: TX_SPACE, in half-words.
Writable(len)        == len # 0 /\ len <= MaxEthFrame
HasRoom(len, space) == space * 2 >= WriteBody(len) + FcsLen

-----------------------------------------------------------------------------
(* adin2111_read_frame, for a frame whose RX_FSIZE is fsize, 32 bits wide *)

\* Otherwise the FIFO is flushed, ERR_NODATA.
GoodFsize(fsize) ==
    fsize >= HeaderLen + FcsLen /\ fsize <= HeaderLen + FcsLen + MaxEthFrame

ReadBody(fsize) == Round4(U16(fsize))
EthLen(fsize)   == U16(fsize - HeaderLen - FcsLen)

(* The RX_FSIZE of the peer for a frame that was written with TX_FSIZE:    *)
(* the ADIN2111 appends the FCS.                                           *)
PeerFsize(len) == TxFsize(len) + FcsLen

(* ECM_DataOut: the lengths that it hands on to net_tx_task.               *)
Submitted == 1..MaxFrameLen
=============================================================================

------------------------------- MODULE SDCard -------------------------------
(***************************************************************************)
(* The driver of the SD card (sd_diskio.cpp): how a card is recognised,    *)
(* how sectors are read and written with commands that are sent again when *)
(* the answer is lost, and what is reported to the file system.            *)
(*                                                                         *)
(* The card is outside the code.  It may be pulled out and replaced at any *)
(* moment, be busy for too long and refuse data; a command may be lost on  *)
(* its way, or the answer to one that was executed, and blocks both ways.  *)
(* What a card without CRC checks receives may be damaged as well: blocks, *)
(* and the address of a transfer.  Tokens and data responses arrive as     *)
(* they were sent or not at all, and what a card holds and answers         *)
(* otherwise follows the SD standard.  One call runs at a time: the lock   *)
(* of the file system, and AcquireSPI.                                     *)
(***************************************************************************)
EXTENDS Integers

CONSTANTS
    Kinds,      \* the cards that may be in the slot
    NSectors,   \* sectors of a card
    Versions,   \* what may be written to a sector
    Refusals,   \* data responses to a block the card does not store
    MaxFaults   \* bound: commands, answers and blocks lost in one call

\* How a card answers SEND_IF_COND and READ_OCR, and whether it knows CRC_ON_OFF.
CardKinds == [v : {"SDHC", "SD2", "SD1", "MMC"}, crc : BOOLEAN]

ASSUME CardAssumption ==
    /\ Kinds # {} /\ Kinds \subseteq CardKinds
    /\ NSectors \in Nat \ {0} /\ MaxFaults \in Nat
    /\ Versions # {}
    /\ Refusals # {} /\ Refusals \subseteq (0 .. 31) \ {5}

VARIABLES
    pc,      \* the next step of the call in progress, or "idle"
    op,      \* the call
    f,       \* its attempts, as the loops count them
    try,     \* attempts of sdCommand
    done,    \* blocks read or written, currentSector - sector
    buffer,  \* the blocks read
    answer,  \* the last data response
    result,  \* what the last call returned
    host,    \* ardu_sdcard_t
    card,    \* the card in the slot
    lost,    \* commands, answers and blocks lost in this call
    spoilt   \* something happened in this call that no attempt makes good

call == <<op, f, done, result>>
data == <<buffer, answer>>
faults == <<lost, spoilt>>
vars == <<pc, call, data, try, host, card, faults>>

-----------------------------------------------------------------------------
\* Blocks are told apart by the sector they come from and a version.  A block that
\* was damaged, or stored where it does not belong, is any version of its sector.
Sectors == 0 .. (NSectors - 1)
Block == [for : Sectors, version : Versions]
Corrupt == [for |-> -1]

\* The card's place in a transfer: a sector, or none.
Tran == -1

NewCard(kind, version) ==
    [kind |-> kind, power |-> "off", crcOn |-> FALSE, mode |-> Tran,
     block |-> [s \in Sectors |-> [for |-> s, version |-> version]], well |-> 0]

\* sdcard_init.
NewHost == [noinit |-> TRUE, type |-> "CARD_NONE", supports_crc |-> TRUE, selected |-> FALSE]

Ranges == {r \in [sector : Sectors, count : 1 .. NSectors] : r.sector + r.count <= NSectors}

Ops == [kind : {"none", "status", "sync", "end"}]
       \cup [kind : {"init"}, able : BOOLEAN]
       \cup [kind : {"read"}, range : Ranges, able : BOOLEAN, before : [Sectors -> Block]]
       \cup [kind : {"write"}, range : Ranges, able : BOOLEAN, version : Versions]

Init ==
    /\ pc = "idle" /\ op = [kind |-> "none"]
    /\ f = 0 /\ try = 0 /\ done = 0 /\ buffer = <<>> /\ answer = 5
    /\ result = "none"
    /\ host = NewHost
    /\ \E kind \in Kinds, version \in Versions : card = NewCard(kind, version)
    /\ lost = 0 /\ spoilt = FALSE

-----------------------------------------------------------------------------
\* The card.  Tokens: 0 in order, 1 idle, 5 idle and illegal command, 9 idle and
\* CRC error, 4 illegal command, 64 parameter error, 255 none.
NoToken == 255
CrcError == 9
R1 == IF card.power = "idle" THEN 1 ELSE 0

Transfers == {"READ_BLOCK_SINGLE", "READ_BLOCK_MULTIPLE", "WRITE_BLOCK_SINGLE", "WRITE_BLOCK_MULTIPLE"}

HCS == 2 ^ 30  \* the host knows cards with high capacity

\* A card with high capacity counts in blocks, the others in bytes.
Addressed(arg) == IF card.kind.v = "SDHC" THEN arg ELSE arg \div 512

Token(cmd, arg) ==
    CASE cmd = "GO_IDLE_STATE" -> 1
      [] cmd # "GO_IDLE_STATE" /\ card.power = "off" -> NoToken
      [] OTHER ->
            IF card.crcOn /\ ~host.supports_crc /\ cmd # "SEND_IF_COND" THEN CrcError
            ELSE IF card.mode # Tran /\ cmd \notin {"STOP_TRANSMISSION", "SEND_STATUS"} THEN 4
            ELSE CASE cmd = "CRC_ON_OFF" -> IF card.kind.crc THEN R1 ELSE 5
                   [] cmd = "SEND_IF_COND" -> IF card.kind.v \in {"SDHC", "SD2"} THEN R1 ELSE 5
                   [] cmd = "APP_OP_COND" ->
                        IF card.kind.v = "MMC" THEN 5
                        ELSE IF card.kind.v = "SDHC" /\ arg # HCS THEN 1 ELSE 0
                   [] cmd = "SEND_OP_COND" -> IF card.kind.v = "SDHC" THEN 1 ELSE 0
                   [] cmd \in {"SET_WR_BLK_ERASE_COUNT", "APP_CLR_CARD_DETECT", "SEND_NUM_WR_BLOCKS"} ->
                        IF card.kind.v = "MMC" THEN 5 ELSE R1
                   [] cmd = "STOP_TRANSMISSION" /\ card.mode = Tran -> 4
                   [] cmd \in Transfers ->
                        IF card.power # "ready" THEN 5
                        ELSE IF Addressed(arg) \notin Sectors THEN 64 ELSE 0
                   [] OTHER -> R1

\* The card after a command it has answered.
Executed(cmd, arg) ==
    IF Token(cmd, arg) \notin {0, 1} THEN card
    ELSE CASE cmd = "GO_IDLE_STATE" -> [card EXCEPT !.power = "idle", !.crcOn = FALSE, !.mode = Tran]
           [] cmd = "CRC_ON_OFF" -> [card EXCEPT !.crcOn = TRUE]
           [] cmd \in {"APP_OP_COND", "SEND_OP_COND"} ->
                [card EXCEPT !.power = IF Token(cmd, arg) = 0 THEN "ready" ELSE @]
           [] cmd \in Transfers -> [card EXCEPT !.mode = Addressed(arg), !.well = 0]
           [] cmd = "STOP_TRANSMISSION" -> [card EXCEPT !.mode = Tran]
           [] OTHER -> card

InTransfer == card.mode # Tran
OnCard == card.mode \in Sectors  \* a transfer that has not run past the last sector
Damaged == [for : {card.mode}, version : Versions]
AfterBlock(c) == [c EXCEPT !.mode = IF op.range.count = 1 THEN Tran ELSE @ + 1]

\* Pulled out and replaced, or without power for a moment: it starts from nothing,
\* and between two calls the last one is forgotten.
Forgotten == op' = [kind |-> "none"] /\ result' = "none" /\ buffer' = <<>> /\ answer' = 5
             /\ lost' = 0 /\ spoilt' = FALSE

Swap ==
    /\ \E kind \in Kinds, version \in Versions : card' = NewCard(kind, version)
    /\ \/ pc = "idle" /\ Forgotten
       \/ pc # "idle" /\ spoilt' = TRUE /\ UNCHANGED <<op, result, data, lost>>
    /\ UNCHANGED <<pc, f, done, try, host>>

-----------------------------------------------------------------------------
\* Steps of a call.
Deselected(h) == [h EXCEPT !.selected = FALSE]

Return(res, h) ==
    /\ pc' = "idle" /\ result' = res
    /\ host' = h
    /\ f' = 0 /\ done' = 0
    /\ UNCHANGED op

Continue(step, h) ==
    /\ pc' = step
    /\ host' = h
    /\ UNCHANGED call

\* sdSelectCard: a card that stays busy for 500 ms is given up.
Select(step, next) ==
    /\ pc = step
    /\ \/ Continue(next, [host EXCEPT !.selected = TRUE]) /\ UNCHANGED faults
       \/ Return("RES_ERROR", Deselected(host)) /\ spoilt' = TRUE /\ UNCHANGED lost
    /\ UNCHANGED <<data, try, card>>

\* sdCommand: three attempts as long as there is no token or a CRC error, then
\* Then(token, host).  An application command is sent after APP_CMD, which has
\* three attempts of its own; when they are used up it is not tried again.
AppCommands == {"SEND_NUM_WR_BLOCKS", "SET_WR_BLK_ERASE_COUNT", "APP_OP_COND", "APP_CLR_CARD_DETECT"}

\* Mutated form: one attempt.
Attempts_One == 1
Attempts == 3

Known(token) == IF token = NoToken THEN [host EXCEPT !.noinit = TRUE] ELSE host

\* No token came: the command was lost, or the answer after the card executed it.
\* A card that has begun or ended a transfer takes the same command for an
\* illegal one; of the others it makes no difference how often they arrive.
Unanswered(cmd, arg) ==
    /\ lost < MaxFaults /\ lost' = lost + 1
    /\ \/ UNCHANGED <<card, spoilt>>
       \/ /\ card' = Executed(cmd, arg)
          /\ spoilt' = (spoilt \/ cmd \in Transfers \cup {"STOP_TRANSMISSION"})

Repeats(cmd, arg) ==
    /\ Unanswered(cmd, arg)
    /\ try + 1 < Attempts /\ try' = try + 1
    /\ UNCHANGED <<pc, call, data, host>>

Answers(cmd, arg) ==
    /\ try' = 0
    /\ card' = Executed(cmd, arg)
    /\ UNCHANGED <<data, faults>>

GivesUp(cmd, arg) ==
    /\ Unanswered(cmd, arg)
    /\ try + 1 >= Attempts /\ try' = 0
    /\ UNCHANGED data

\* A card without CRC checks begins a transfer at another sector.
Misread(cmd) ==
    /\ ~host.supports_crc /\ cmd \in Transfers
    /\ card.power = "ready" /\ ~card.crcOn /\ ~InTransfer
    /\ \E s \in Sectors : card' = [card EXCEPT !.mode = s, !.well = 0]
    /\ try' = 0 /\ spoilt' = TRUE
    /\ UNCHANGED <<data, lost>>

NotAnnounced(cmd) ==
    /\ cmd \in AppCommands
    /\ try' = 0 /\ spoilt' = TRUE
    /\ UNCHANGED <<data, card, lost>>

sdCommand(step, cmd, arg, Then(_, _)) ==
    /\ pc = step
    /\ \/ Repeats(cmd, arg)
       \/ Answers(cmd, arg) /\ Then(Token(cmd, arg), Known(Token(cmd, arg)))
       \/ Misread(cmd) /\ Then(0, Known(0))
       \/ /\ GivesUp(cmd, arg) \/ NotAnnounced(cmd)
          /\ \E token \in {NoToken, CrcError} : Then(token, Known(token))

\* sdTransaction: a card that is busy counts as no token, but stays initialised.
NotSelected ==
    /\ try = 0 /\ spoilt' = TRUE
    /\ UNCHANGED <<data, try, card, lost>>

sdTransaction(step, cmd, arg, Then(_, _)) ==
    \/ sdCommand(step, cmd, arg, LAMBDA token, h : Then(token, Deselected(h)))
    \/ pc = step /\ NotSelected /\ Then(NoToken, host)

-----------------------------------------------------------------------------
\* ff_sd_read and ff_sd_write: one sector, or several in one command.
\* Mutated form: every card is addressed in blocks.
Argument_Block(sector) == sector
Argument(sector) == IF host.type = "CARD_SDHC" THEN sector ELSE 512 * sector

ErrorOf(h) == Return("RES_ERROR", Deselected(h))

\* The end of an attempt that failed, as the for loops count them.
Retry(attempts, step, h) ==
    IF attempts < 3
    THEN /\ pc' = step /\ f' = attempts
         /\ host' = Deselected(h)
         /\ UNCHANGED <<op, done, result>>
    ELSE ErrorOf(h)

ReadSelect == Select("read", "read command")

\* Mutated form: a read that is resumed starts with the first sector again.
ReadCommand_Restart ==
    sdCommand("read command",
              IF op.range.count = 1 THEN "READ_BLOCK_SINGLE" ELSE "READ_BLOCK_MULTIPLE",
              Argument(op.range.sector),
              LAMBDA token, h : IF token = 0 THEN Continue("read bytes", h) ELSE ErrorOf(h))

ReadCommand ==
    sdCommand("read command",
              IF op.range.count = 1 THEN "READ_BLOCK_SINGLE" ELSE "READ_BLOCK_MULTIPLE",
              Argument(op.range.sector + done),
              LAMBDA token, h : IF token = 0 THEN Continue("read bytes", h) ELSE ErrorOf(h))

\* sdReadBytes found the block, or one it cannot tell from it without a CRC.
ReadGood ==
    /\ pc = "read bytes" /\ OnCard
    /\ \/ /\ buffer' = [buffer EXCEPT ![done + 1] = card.block[card.mode]]
          /\ UNCHANGED spoilt
       \/ /\ ~host.supports_crc
          /\ \E block \in Damaged : buffer' = [buffer EXCEPT ![done + 1] = block]
          /\ spoilt' = TRUE
    /\ card' = AfterBlock(card)
    /\ IF op.range.count = 1 THEN Return("RES_OK", Deselected(host))
       ELSE /\ done' = done + 1 /\ f' = 0
            /\ pc' = IF done' = op.range.count THEN "read stop" ELSE pc
            /\ UNCHANGED <<op, result, host>>
    /\ UNCHANGED <<answer, try, lost>>

\* A damaged block, an error token instead of it, or nothing for 500 ms.
ReadBad ==
    /\ pc = "read bytes"
    /\ \/ OnCard /\ lost < MaxFaults /\ lost' = lost + 1 /\ card' = AfterBlock(card) /\ UNCHANGED spoilt
       \/ OnCard /\ spoilt' = TRUE /\ UNCHANGED <<lost, card>>
       \/ ~OnCard /\ UNCHANGED <<lost, card, spoilt>>
    /\ IF op.range.count = 1 THEN Retry(f + 1, "read", host)
       ELSE /\ f' = f + 1 /\ pc' = "read stop"
            /\ UNCHANGED <<op, done, result, host>>
    /\ UNCHANGED <<data, try>>

\* Mutated form: the card stays selected.
ReadStop_Selected ==
    sdCommand("read stop", "STOP_TRANSMISSION", 0,
              LAMBDA token, h :
                IF token # 0 THEN ErrorOf(h)
                ELSE IF done = op.range.count THEN Return("RES_OK", h)
                ELSE Retry(f, "read", h))

ReadStop ==
    sdCommand("read stop", "STOP_TRANSMISSION", 0,
              LAMBDA token, h :
                IF token # 0 THEN ErrorOf(h)
                ELSE IF done = op.range.count THEN Return("RES_OK", Deselected(h))
                ELSE Retry(f, "read", h))

-----------------------------------------------------------------------------
WriteErase ==
    \/ /\ pc = "write erase" /\ host.type = "CARD_MMC"
       /\ Continue("write", host)
       /\ UNCHANGED <<data, try, card, faults>>
    \/ /\ host.type # "CARD_MMC"
       /\ sdTransaction("write erase", "SET_WR_BLK_ERASE_COUNT", 0,
            LAMBDA token, h : IF token = 0 THEN Continue("write", h) ELSE ErrorOf(h))

WriteSelect == Select("write", "write command")

WriteCommand ==
    sdCommand("write command",
              IF op.range.count = 1 THEN "WRITE_BLOCK_SINGLE" ELSE "WRITE_BLOCK_MULTIPLE",
              Argument(op.range.sector + done),
              LAMBDA token, h : IF token = 0 THEN Continue("write bytes", h) ELSE ErrorOf(h))

\* sdWriteBytes: the block of the buffer, if the card is where it belongs.
Sent ==
    IF done \in 0 .. (op.range.count - 1) /\ card.mode = op.range.sector + done
    THEN [for : {card.mode}, version : {op.version}]
    ELSE Damaged

Storing(block) == AfterBlock([card EXCEPT !.well = @ + 1, !.block[card.mode] = block])

\* The data response is 5 for a block that is stored, damaged or not, 31 when there
\* is none.  The driver takes 0 from sdWait when the card is busy for 500 ms: then
\* nothing is sent, and the card goes on waiting for the block, as it does when
\* the start of the block is lost.
WriteBytes ==
    /\ \/ /\ OnCard
          /\ \E block \in Sent : card' = Storing(block)
          /\ \/ answer' = 5 /\ UNCHANGED spoilt
             \/ answer' = 31 /\ spoilt' = TRUE
       \/ /\ OnCard /\ ~host.supports_crc
          /\ \E block \in Damaged : card' = Storing(block)
          /\ answer' = 5 /\ spoilt' = TRUE
       \/ /\ InTransfer /\ answer' \in Refusals /\ spoilt' = TRUE
          /\ card' = IF op.range.count = 1 THEN [card EXCEPT !.mode = Tran] ELSE card
       \/ InTransfer /\ answer' \in {0, 31} /\ spoilt' = TRUE /\ UNCHANGED card
       \/ ~OnCard /\ answer' = 31 /\ UNCHANGED <<card, spoilt>>
    /\ UNCHANGED <<buffer, try, lost>>

\* What sdWriteSector makes of the answer.
Repeated(token) == token = 10
Refused(token) == token = 12

WriteSingle ==
    /\ pc = "write bytes" /\ op.range.count = 1
    /\ WriteBytes
    /\ CASE Repeated(answer') -> Retry(f + 1, "write", host)
         [] Refused(answer') -> ErrorOf(host)
         [] OTHER -> Continue("write status", Deselected(host))

\* sdWriteSectors goes on while the answer is this one.
\* Mutated form: as long as the answer is not one sdWriteSector knows.
Accepted_NotRefused(token) == ~Repeated(token) /\ ~Refused(token)
Accepted(token) == token = 5

WriteMultiple ==
    /\ pc = "write bytes" /\ op.range.count > 1
    /\ WriteBytes
    /\ IF Accepted(answer')
       THEN /\ done' = done + 1 /\ f' = 0
            /\ pc' = IF done' = op.range.count THEN "write wait" ELSE pc
       ELSE /\ f' = f + 1 /\ pc' = "write wait"
            /\ UNCHANGED done
    /\ UNCHANGED <<op, result, host>>

\* sdWait, then the stop token, which may be lost: it has no answer.
WriteWait ==
    /\ pc = "write wait"
    /\ \/ /\ done = op.range.count /\ Continue("write status", Deselected(host))
          /\ \/ card' = [card EXCEPT !.mode = Tran] /\ UNCHANGED spoilt
             \/ spoilt' = TRUE /\ UNCHANGED card
       \/ done # op.range.count /\ Continue("write stop", host) /\ UNCHANGED <<card, spoilt>>
       \/ ErrorOf(host) /\ spoilt' = TRUE /\ UNCHANGED card
    /\ UNCHANGED <<data, try, lost>>

WriteStop ==
    sdCommand("write stop", "STOP_TRANSMISSION", 0,
              LAMBDA token, h : IF token = 0 /\ Repeated(answer)
                                THEN Continue("write number", Deselected(h)) ELSE ErrorOf(h))

\* SEND_NUM_WR_BLOCKS: the blocks written since the last command, counted from
\* the first sector of the call.
Resume(written, h) ==
    IF f < 3
    THEN /\ pc' = "write erase" /\ done' = written
         /\ host' = Deselected(h)
         /\ UNCHANGED <<op, f, result>>
    ELSE ErrorOf(h)

\* Without a CRC any four bytes pass for the number of blocks.  What counts of it
\* is where on the card the transfer goes on, and for how many blocks.
Miscounted ==
    /\ pc = "write number" /\ host.type # "CARD_MMC" /\ try = 0
    /\ ~host.supports_crc
    /\ \E written \in (- NSectors) .. NSectors : Resume(written, host)
    /\ spoilt' = TRUE
    /\ UNCHANGED <<data, try, card, lost>>

WriteNumber ==
    \/ /\ pc = "write number" /\ host.type = "CARD_MMC"
       /\ Resume(0, host)
       /\ UNCHANGED <<data, try, card, faults>>
    \/ /\ host.type # "CARD_MMC"
       /\ sdTransaction("write number", "SEND_NUM_WR_BLOCKS", 0,
            LAMBDA token, h : \E written \in IF token = 0 THEN {0, card.well} ELSE {0} : Resume(written, h))
    \/ Miscounted

\* SEND_STATUS, whose second byte tells of a block that was refused, or accepted
\* and then not programmed.
WriteError ==
    /\ pc = "write status" /\ try = 0
    /\ ErrorOf(host)
    /\ spoilt' = TRUE
    /\ UNCHANGED <<data, try, card, lost>>

WriteStatus ==
    \/ sdTransaction("write status", "SEND_STATUS", 0,
           LAMBDA token, h : IF token = 0 THEN Return("RES_OK", h) ELSE ErrorOf(h))
    \/ WriteError

-----------------------------------------------------------------------------
\* ff_sd_initialize.
Unknown(h) == Return("STA_NOINIT", [Deselected(h) EXCEPT !.type = "CARD_UNKNOWN"])

Probe(step, cmd, arg, wanted, next) ==
    sdTransaction(step, cmd, arg,
        LAMBDA token, h : IF token = wanted THEN Continue(next, h) ELSE Unknown(h))

InitIdle ==
    sdCommand("init", "GO_IDLE_STATE", 0,
        LAMBDA token, h : IF token = 1 THEN Continue("init crc", Deselected(h)) ELSE Unknown(h))

InitCrc ==
    sdTransaction("init crc", "CRC_ON_OFF", 1,
        LAMBDA token, h :
            CASE token = 1 -> Continue("init if", h)
              [] token = 5 -> Continue("init if", [h EXCEPT !.supports_crc = FALSE])
              [] OTHER -> Unknown(h))

InitIf ==
    sdTransaction("init if", "SEND_IF_COND", 0,
        LAMBDA token, h : Continue(IF token = 1 THEN "init ocr 2" ELSE "init ocr 1", h))

\* SEND_IF_COND or READ_OCR answered with another voltage.
InitVoltage ==
    /\ pc \in {"init if", "init ocr 1", "init ocr 2"} /\ try = 0
    /\ Unknown(host)
    /\ spoilt' = TRUE
    /\ UNCHANGED <<data, try, card, lost>>

\* The loops that wait for the card, one second at most (InitSlow).
InitOcr2 == Probe("init ocr 2", "READ_OCR", 0, 1, "init op 2")
InitOp2 == Probe("init op 2", "APP_OP_COND", HCS, 0, "init ccs")

\* Mutated form: a card of version 2 has high capacity.
InitCcs_Assumed ==
    sdTransaction("init ccs", "READ_OCR", 0,
        LAMBDA token, h :
            IF token = 0 THEN Continue("init detect", [h EXCEPT !.type = "CARD_SDHC"]) ELSE Unknown(h))

InitCcs ==
    sdTransaction("init ccs", "READ_OCR", 0,
        LAMBDA token, h :
            IF token = 0
            THEN Continue("init detect",
                    [h EXCEPT !.type = IF card.kind.v = "SDHC" THEN "CARD_SDHC" ELSE "CARD_SD"])
            ELSE Unknown(h))

InitOcr1 == Probe("init ocr 1", "READ_OCR", 0, 1, "init op 1")

InitOp1 ==
    sdTransaction("init op 1", "APP_OP_COND", 0,
        LAMBDA token, h :
            IF token = 0 THEN Continue("init detect", [h EXCEPT !.type = "CARD_SD"])
            ELSE Continue("init op mmc", h))

InitMmc ==
    sdTransaction("init op mmc", "SEND_OP_COND", 0,
        LAMBDA token, h :
            IF token = 0 THEN Continue("init detect", [h EXCEPT !.type = "CARD_MMC"])
            ELSE Continue("init op mmc", h))

InitSlow ==
    /\ pc \in {"init op 1", "init op 2", "init op mmc"} /\ try = 0
    /\ IF pc = "init op 1" THEN Continue("init op mmc", host) ELSE Unknown(host)
    /\ spoilt' = TRUE
    /\ UNCHANGED <<data, try, card, lost>>

InitDetect ==
    \/ /\ pc = "init detect" /\ host.type = "CARD_MMC"
       /\ Continue("init block", host)
       /\ UNCHANGED <<data, try, card, faults>>
    \/ /\ host.type # "CARD_MMC"
       /\ Probe("init detect", "APP_CLR_CARD_DETECT", 0, 0, "init block")

InitBlockLen ==
    \/ /\ pc = "init block" /\ host.type = "CARD_SDHC"
       /\ Continue("init csd", host)
       /\ UNCHANGED <<data, try, card, faults>>
    \/ /\ host.type # "CARD_SDHC"
       /\ Probe("init block", "SET_BLOCKLEN", 0, 0, "init csd")

\* sdGetSectorsCount: initialised, whatever came of it.
InitSectors ==
    sdTransaction("init csd", "SEND_CSD", 0,
        LAMBDA token, h : Return("RES_OK", [h EXCEPT !.noinit = FALSE]))

ff_sd_initialize ==
    InitIdle \/ InitCrc \/ InitIf \/ InitVoltage \/ InitOcr2 \/ InitOp2 \/ InitCcs \/ InitOcr1
    \/ InitOp1 \/ InitMmc \/ InitSlow \/ InitDetect \/ InitBlockLen \/ InitSectors

-----------------------------------------------------------------------------
\* The other calls.
ff_sd_status ==
    sdTransaction("status", "SEND_STATUS", 0,
        LAMBDA token, h : Return(IF token # 0 \/ h.noinit THEN "STA_NOINIT" ELSE "RES_OK", h))

ff_sd_ioctl_Sync ==
    /\ pc = "sync"
    /\ \/ Return("RES_OK", Deselected(host)) /\ UNCHANGED spoilt
       \/ Return("RES_ERROR", Deselected(host)) /\ spoilt' = TRUE
    /\ UNCHANGED <<data, try, card, lost>>

\* SDFS::end and SDFS::begin again: sdcard_uninit, sdcard_init.
EndBegin ==
    sdTransaction("end", "GO_IDLE_STATE", 0, LAMBDA token, h : Return("none", NewHost))

\* The file system calls.  `able': nothing but a fault can make the call fail.
Able == card.power = "ready" /\ card.mode = Tran

Begin(o, step) ==
    /\ op' = o /\ pc' = step
    /\ result' = "none" /\ answer' = 5
    /\ lost' = 0 /\ spoilt' = FALSE
    /\ buffer' = IF o.kind = "read" THEN [k \in 1 .. o.range.count |-> Corrupt] ELSE <<>>
    /\ UNCHANGED <<f, done, try, host, card>>

Called ==
    /\ pc = "idle"
    /\ \/ /\ host.noinit
          /\ Begin([kind |-> "init", able |-> host.supports_crc \/ ~card.kind.crc], "init")
       \/ /\ ~host.noinit
          /\ \E r \in Ranges : Begin([kind |-> "read", range |-> r, able |-> Able, before |-> card.block], "read")
       \/ /\ ~host.noinit
          /\ \E r \in Ranges, version \in Versions :
                Begin([kind |-> "write", range |-> r, able |-> Able, version |-> version],
                      IF r.count = 1 THEN "write" ELSE "write erase")
       \/ \E kind \in {"status", "sync", "end"} : Begin([kind |-> kind], kind)

Next ==
    \/ Called \/ ff_sd_initialize \/ ff_sd_status \/ ff_sd_ioctl_Sync \/ EndBegin
    \/ ReadSelect \/ ReadCommand \/ ReadGood \/ ReadBad \/ ReadStop
    \/ WriteErase \/ WriteSelect \/ WriteCommand \/ WriteSingle \/ WriteMultiple
    \/ WriteWait \/ WriteStop \/ WriteNumber \/ WriteStatus
    \/ Swap

Spec == Init /\ [][Next]_vars

-----------------------------------------------------------------------------
TypeOK ==
    /\ op \in Ops
    /\ f \in 0 .. 3 /\ try \in 0 .. 2 /\ done \in Int
    /\ answer \in 0 .. 31
    /\ result \in {"none", "RES_OK", "RES_ERROR", "STA_NOINIT"}
    /\ host \in [noinit : BOOLEAN, supports_crc : BOOLEAN, selected : BOOLEAN,
                 type : {"CARD_NONE", "CARD_UNKNOWN", "CARD_SD", "CARD_SDHC", "CARD_MMC"}]
    /\ lost \in 0 .. MaxFaults /\ spoilt \in BOOLEAN

Returned == pc = "idle"
Asked == op.range.sector .. (op.range.sector + op.range.count - 1)

\* A card that will be written to is addressed in its own unit: whatever answers
\* were lost while it was recognised, and whatever card was in the slot before,
\* an initialised card has high capacity exactly when the driver thinks so.
AddressesMatch ==
    card.power = "ready" /\ ~host.noinit => (host.type = "CARD_SDHC" <=> card.kind.v = "SDHC")

\* What is claimed of a card without CRC is claimed of calls in which nothing was
\* damaged on the way.
Intact == host.supports_crc \/ ~spoilt

\* A read that is reported successful delivers the blocks of the sectors asked
\* for, in order, however often it was resumed and whatever was lost.
ReadCorrect ==
    Returned /\ result = "RES_OK" /\ op.kind = "read" /\ Intact =>
        \A k \in 1 .. op.range.count : buffer[k] = op.before[op.range.sector + k - 1]

\* A write of several sectors that is reported successful has stored every
\* block in its place, whatever was lost or refused; of a write of one sector
\* this is claimed only if the card said so, for sdWriteSector takes every other
\* answer than 10 and 12 for success when SEND_STATUS does not object.
WriteStored ==
    Returned /\ result = "RES_OK" /\ op.kind = "write" /\ Intact /\ (op.range.count > 1 \/ answer = 5) =>
        \A s \in Asked : card.block[s] = [for |-> s, version |-> op.version]

\* A call changes no sector but those it was asked to write, whatever is lost:
\* with CRC in every call, without it in those in which nothing was damaged.
OnlyAskedChanged ==
    [][\A s \in Sectors : card'.block[s] # card.block[s] /\ ~Swap /\ (host.supports_crc \/ ~spoilt') =>
            op.kind = "write" /\ s \in Asked]_vars

\* Up to two lost commands or blocks read, wherever they fall, make no call fail:
\* an initialised card is read and written, and a new one is recognised.  A lost
\* answer counts as a lost command, except to one that begins or ends a transfer:
\* the card takes its repetition for an illegal command, and the call fails.
FaultsTolerated ==
    Returned /\ op.kind \in {"init", "read", "write"} /\ op.able /\ ~spoilt /\ lost <= 2 =>
        /\ result \in {"RES_OK", "none"}
        /\ result = "RES_OK" /\ op.kind = "init" =>
            host.type = CASE card.kind.v = "SDHC" -> "CARD_SDHC"
                          [] card.kind.v \in {"SD1", "SD2"} -> "CARD_SD"
                          [] card.kind.v = "MMC" -> "CARD_MMC"

\* After every call the bus is free for others.  After a successful read the card
\* waits for a command, not for the rest of a transfer, whatever was lost; after a
\* successful write this is claimed if no block or stop token was lost on the
\* way: sdWriteSector reports success also when it could not send the block
\* because sdWait failed, and the card still waits for it.
Released ==
    Returned => /\ ~host.selected
                /\ result = "RES_OK" /\ op.kind = "read" => card.mode = Tran
                /\ result = "RES_OK" /\ op.kind = "write" /\ ~spoilt => card.mode = Tran
=============================================================================

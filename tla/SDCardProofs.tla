---------------------------- MODULE SDCardProofs ----------------------------
(***************************************************************************)
(* What the driver of the SD card promises, for every card, every number   *)
(* of sectors and every number of commands, answers and blocks lost in a   *)
(* call, whether the card had executed a command whose answer was lost or  *)
(* had not received it.  No safety property of SDCard is inductive as it   *)
(* stands, so each has an invariant over the steps of a call, and the      *)
(* invariants rest on each other in this order:                            *)
(*                                                                         *)
(*   TypeInv     types, the steps of each call, and what its loops count   *)
(*   AddressInv  from the step that tells SDHC cards from others on, host  *)
(*               and card agree; before the steps that ask the card to get *)
(*               ready it is not                                           *)
(*   BusInv      where the card is selected, and at which sector a         *)
(*               transfer in progress stands                               *)
(*   ReadInv     the blocks read so far, WriteInv the blocks written; on a *)
(*               card without CRC, in calls in which nothing was damaged   *)
(*   CrcInv      a card that checks the CRC is sent it                     *)
(*   FaultInv    in a call that only losses disturb, the attempts used up  *)
(*               were all lost ones, and the card is where the step needs  *)
(*               it                                                        *)
(*                                                                         *)
(* Lemmas ...Form give the shape of a step without its LAMBDA, lemmas      *)
(* ...Step what it changes; the proofs of the invariants use these only.   *)
(***************************************************************************)
EXTENDS SDCard, TLAPS

-----------------------------------------------------------------------------
\* The invariants.
InitSteps == {"init", "init crc", "init if", "init ocr 1", "init ocr 2", "init op 1", "init op 2",
              "init op mmc", "init ccs", "init detect", "init block", "init csd"}
ReadSteps == {"read", "read command", "read bytes", "read stop"}
WriteSteps == {"write erase", "write", "write command", "write bytes", "write wait", "write stop",
               "write number", "write status"}
Steps == InitSteps \cup ReadSteps \cup WriteSteps \cup {"idle", "status", "sync", "end"}

\* Where a transfer may stand: at a sector, past the last one, or nowhere.
Places == Sectors \cup {Tran, NSectors}

CardStates == [kind : Kinds, power : {"off", "idle", "ready"}, crcOn : BOOLEAN,
               mode : Places, block : [Sectors -> Block], well : Nat]

HostStates == [noinit : BOOLEAN, supports_crc : BOOLEAN, selected : BOOLEAN,
               type : {"CARD_NONE", "CARD_UNKNOWN", "CARD_SD", "CARD_SDHC", "CARD_MMC"}]

\* A call is made of its own steps.
CallSteps ==
    /\ pc \in InitSteps => op.kind = "init"
    /\ pc \in ReadSteps => op.kind = "read"
    /\ pc \in WriteSteps => op.kind = "write"
    /\ pc \in {"status", "sync", "end"} => op.kind = pc

\* What the loops count: at most three attempts, never more blocks than asked for
\* as long as no number of blocks written was misread (Counted).
Counted == pc \in ReadSteps \/ (pc \in WriteSteps /\ Intact)
Bounded(step, response) ==
    step \in {"write bytes", "write number"} \/ (step \in {"write wait", "write stop"} /\ Repeated(response))
Counts ==
    /\ pc \notin ReadSteps \cup WriteSteps => f = 0 /\ done = 0
    /\ f = 3 => pc \in {"read stop", "write wait", "write stop", "write number", "write status"}
    /\ Counted => 0 <= done /\ done <= op.range.count
    /\ Counted /\ done = op.range.count => pc \in {"read stop", "write wait", "write status"}
    /\ Counted /\ Bounded(pc, answer) => card.well <= done
    /\ pc \in {"idle", "read", "read bytes", "write", "write bytes", "write wait", "sync"} => try = 0
    /\ pc \in {"write erase", "write number"} /\ host.type = "CARD_MMC" => try = 0

TypeInv == TypeOK /\ pc \in Steps /\ card \in CardStates /\ CallSteps /\ Counts

\* A card is made ready by the steps that ask for it (OpSteps), not by those that ask it
\* what it is; a card with high capacity is not made ready by the steps for the others.
\* Once the type is set (LateInit) host and card agree, in every later call too.
Match == host.type = "CARD_SDHC" <=> card.kind.v = "SDHC"
LateInit == {"init detect", "init block", "init csd"}
EarlyInit == InitSteps \ ({"init", "init ccs"} \cup LateInit)
OpSteps == {"init op 1", "init op 2", "init op mmc"}
AddressInv ==
    /\ card.mode # Tran => card.power = "ready"
    /\ pc \in InitSteps => host.noinit
    /\ pc \in EarlyInit \ OpSteps => card.power # "ready"
    /\ card.power = "ready" /\ pc \in {"init op 1", "init op mmc"} => card.kind.v # "SDHC"
    /\ card.power = "ready" /\ (~host.noinit \/ pc \in LateInit \cup ReadSteps \cup WriteSteps) => Match

\* The card is selected between sdSelectCard and the end of the transfer only; a
\* transfer that goes on stands at the sector of the next block.
BusInv ==
    /\ host.selected => pc \in {"read command", "read bytes", "read stop",
                                "write command", "write bytes", "write wait", "write stop"}
    /\ pc = "write status" /\ ~spoilt => card.mode = Tran
    /\ pc \in {"read bytes", "write bytes"} /\ Intact /\ card.mode # Tran => card.mode = op.range.sector + done
    /\ Released

\* The first blocks of the buffer are those of the first sectors; only a card
\* that was replaced has other blocks than when the call began.
Read(k) == buffer[k] = op.before[op.range.sector + k - 1]
ReadInv ==
    /\ pc \in ReadSteps =>
        /\ card.power = "off" \/ card.block = op.before
        /\ buffer \in [1 .. op.range.count -> Block \cup {Corrupt}]
        /\ Intact => \A k \in 1 .. done : Read(k)
    /\ ReadCorrect

\* The sectors before the one that is written next are stored, also when the
\* card counted fewer blocks than were sent.
Stored(s) == card.block[s] = [for |-> s, version |-> op.version]
WriteInv ==
    /\ pc \in WriteSteps /\ Intact =>
        card.power = "off" \/ \A s \in op.range.sector .. (op.range.sector + done - 1) : Stored(s)
    /\ pc = "write status" /\ Intact =>
        IF op.range.count = 1
        THEN answer = 5 => card.power = "off" \/ Stored(op.range.sector)
        ELSE done = op.range.count
    /\ WriteStored

\* A card in use that checks the CRC is known to do so, and a card that is no SD
\* card is known as a CARD_MMC.
CrcInv ==
    /\ card.crcOn => card.kind.crc
    /\ card.power = "off" => ~card.crcOn
    /\ card.power = "ready" /\ (~host.noinit \/ pc \in {"init ccs"} \cup OpSteps \cup LateInit \cup ReadSteps \cup WriteSteps) =>
        (card.crcOn => host.supports_crc)
    /\ card.power = "ready" /\ pc \in {"init op 1", "init op 2", "init ccs"} => card.kind.v # "MMC"
    /\ card.power = "ready" /\ (~host.noinit \/ pc \in LateInit \cup ReadSteps \cup WriteSteps) =>
        (card.kind.v = "MMC" => host.type = "CARD_MMC")

\* A call that nothing but losses disturbs: every attempt used up was a lost one,
\* the card is in the state the step needs, and a card that is recognised takes the
\* branch for its kind.
Calm == op.able /\ ~spoilt /\ lost <= 2

Type(v) == CASE v = "SDHC" -> "CARD_SDHC" [] v \in {"SD1", "SD2"} -> "CARD_SD" [] v = "MMC" -> "CARD_MMC"
InitCalm ==
    /\ try <= lost
    /\ host.supports_crc \/ ~card.kind.crc
    /\ pc # "init" => card.mode = Tran
    /\ pc \in EarlyInit \ OpSteps => card.power = "idle"
    /\ pc \in OpSteps => card.power # "off"
    /\ pc \in {"init ccs"} \cup LateInit => card.power = "ready"
    /\ pc \in {"init ocr 2", "init op 2", "init ccs"} => card.kind.v \in {"SDHC", "SD2"}
    /\ pc \in {"init ocr 1", "init op 1"} => card.kind.v \in {"SD1", "MMC"}
    /\ pc = "init op mmc" => card.kind.v = "MMC"
    /\ pc \in LateInit => host.type = Type(card.kind.v)

ReadCalm ==
    /\ f + try <= lost
    /\ card.power = "ready"
    /\ pc \in {"read", "read command"} => card.mode = Tran
    /\ pc \in {"read bytes", "read stop"} => card.mode # Tran

WriteCalm ==
    /\ try <= lost /\ f = 0
    /\ card.power = "ready"
    /\ answer = 5
    /\ pc \in {"write erase", "write", "write command"} => card.mode = Tran
    /\ pc = "write bytes" => card.mode # Tran
    /\ pc = "write wait" => done = op.range.count
    /\ pc \notin {"write stop", "write number"}

FaultInv ==
    /\ pc \in InitSteps /\ Calm => InitCalm
    /\ pc \in ReadSteps /\ Calm => ReadCalm
    /\ pc \in WriteSteps /\ Calm => WriteCalm
    /\ FaultsTolerated

-----------------------------------------------------------------------------
\* What a command does to the card, whatever it answers.
LEMMA Transferring ==
    ASSUME NEW c \in CardStates, NEW place \in Places, NEW n \in Nat
    PROVE  /\ [c EXCEPT !.mode = place] \in CardStates
           /\ [c EXCEPT !.mode = place].kind = c.kind
           /\ [c EXCEPT !.mode = place].block = c.block
           /\ [c EXCEPT !.mode = place, !.well = n] \in CardStates
           /\ [c EXCEPT !.mode = place, !.well = n].kind = c.kind
           /\ [c EXCEPT !.mode = place, !.well = n].block = c.block
BY DEF CardStates, Places

\* A command changes neither the kind of the card nor what it holds.
LEMMA Execution ==
    ASSUME card \in CardStates, NEW cmd, NEW arg
    PROVE  /\ Executed(cmd, arg) \in CardStates
           /\ Executed(cmd, arg).kind = card.kind
           /\ Executed(cmd, arg).block = card.block
           /\ cmd \notin Transfers => Executed(cmd, arg).well = card.well
<1>1. CASE Token(cmd, arg) \notin {0, 1}
  BY <1>1 DEF Executed
<1>2. CASE Token(cmd, arg) \in {0, 1} /\ cmd \notin Transfers
  BY <1>2 DEF Executed, CardStates, Places, Tran, Transfers
<1>3. CASE Token(cmd, arg) \in {0, 1} /\ cmd \in Transfers
  <2>1. Addressed(arg) \in Sectors
    BY <1>3 DEF Token, Transfers, NoToken, CrcError
  <2>2. Executed(cmd, arg) = [card EXCEPT !.mode = Addressed(arg), !.well = 0]
    BY <1>3 DEF Executed, Transfers
  <2>3. 0 \in Nat
    OBVIOUS
  <2>4. /\ [card EXCEPT !.mode = Addressed(arg), !.well = 0] \in CardStates
        /\ [card EXCEPT !.mode = Addressed(arg), !.well = 0].kind = card.kind
        /\ [card EXCEPT !.mode = Addressed(arg), !.well = 0].block = card.block
    BY <2>1, <2>3, Transferring DEF CardStates, Places
  <2> QED BY <1>3, <2>2, <2>4
<1> QED BY <1>1, <1>2, <1>3

-----------------------------------------------------------------------------
\* What came of a command that is not sent again: the token it is taken for and
\* the host then.
Replied(cmd, arg, token, h) ==
    /\ \/ Answers(cmd, arg) /\ token = Token(cmd, arg)
       \/ Misread(cmd) /\ token = 0
       \/ (GivesUp(cmd, arg) \/ NotAnnounced(cmd)) /\ token \in {NoToken, CrcError}
    /\ h = Known(token)

Transacted(cmd, arg, token, h) ==
    /\ cmd \notin Transfers
    /\ \/ \E g : Replied(cmd, arg, token, g) /\ h = Deselected(g)
       \/ NotSelected /\ token = NoToken /\ h = host

\* The forms of the steps of ff_sd_initialize.
LEMMA InitIdleForm ==
    ASSUME InitIdle
    PROVE  /\ pc = "init"
           /\ \/ Repeats("GO_IDLE_STATE", 0)
              \/ \E token, h : /\ Replied("GO_IDLE_STATE", 0, token, h)
                               /\ IF token = 1 THEN Continue("init crc", Deselected(h)) ELSE Unknown(h)
BY DEF InitIdle, sdCommand, Replied

\* The forms of the steps of ff_sd_initialize: what each sends and what it makes of the token.
LEMMA InitCrcForm ==
    ASSUME InitCrc
    PROVE  /\ pc = "init crc"
           /\ \/ Repeats("CRC_ON_OFF", 1)
              \/ \E token, h : /\ Transacted("CRC_ON_OFF", 1, token, h)
                               /\ \/ token = 1 /\ Continue("init if", h)
                                  \/ token = 5 /\ Continue("init if", [h EXCEPT !.supports_crc = FALSE])
                                  \/ token \notin {1, 5} /\ Unknown(h)
BY DEF InitCrc, sdTransaction, sdCommand, Replied, Transacted, Transfers

LEMMA InitIfForm ==
    ASSUME InitIf
    PROVE  /\ pc = "init if"
           /\ \/ Repeats("SEND_IF_COND", 0)
              \/ \E token, h : /\ Transacted("SEND_IF_COND", 0, token, h)
                               /\ Continue(IF token = 1 THEN "init ocr 2" ELSE "init ocr 1", h)
BY DEF InitIf, sdTransaction, sdCommand, Replied, Transacted, Transfers

\* The steps that go on with one token only: what each sends, wants and goes on with.
Probed(step, cmd, arg, wanted, next) ==
    /\ pc = step
    /\ \/ Repeats(cmd, arg)
       \/ \E token, h : /\ Transacted(cmd, arg, token, h)
                        /\ IF token = wanted THEN Continue(next, h) ELSE Unknown(h)

LEMMA ProbeForms ==
    /\ InitOcr2 => Probed("init ocr 2", "READ_OCR", 0, 1, "init op 2")
    /\ InitOp2 => Probed("init op 2", "APP_OP_COND", HCS, 0, "init ccs")
    /\ InitOcr1 => Probed("init ocr 1", "READ_OCR", 0, 1, "init op 1")
    /\ InitDetect => \/ /\ pc = "init detect" /\ host.type = "CARD_MMC"
                        /\ Continue("init block", host)
                        /\ UNCHANGED <<data, try, card, faults>>
                     \/ /\ host.type # "CARD_MMC"
                        /\ Probed("init detect", "APP_CLR_CARD_DETECT", 0, 0, "init block")
    /\ InitBlockLen => \/ /\ pc = "init block" /\ host.type = "CARD_SDHC"
                          /\ Continue("init csd", host)
                          /\ UNCHANGED <<data, try, card, faults>>
                       \/ /\ host.type # "CARD_SDHC"
                          /\ Probed("init block", "SET_BLOCKLEN", 0, 0, "init csd")
<1>1. InitOcr2 => Probed("init ocr 2", "READ_OCR", 0, 1, "init op 2")
  BY DEF InitOcr2, Probe, Probed, sdTransaction, sdCommand, Replied, Transacted, Transfers
<1>2. InitOp2 => Probed("init op 2", "APP_OP_COND", HCS, 0, "init ccs")
  BY DEF InitOp2, Probe, Probed, sdTransaction, sdCommand, Replied, Transacted, Transfers
<1>3. InitOcr1 => Probed("init ocr 1", "READ_OCR", 0, 1, "init op 1")
  BY DEF InitOcr1, Probe, Probed, sdTransaction, sdCommand, Replied, Transacted, Transfers
<1>4. Probe("init detect", "APP_CLR_CARD_DETECT", 0, 0, "init block") =>
        Probed("init detect", "APP_CLR_CARD_DETECT", 0, 0, "init block")
  BY DEF Probe, Probed, sdTransaction, sdCommand, Replied, Transacted, Transfers
<1>5. Probe("init block", "SET_BLOCKLEN", 0, 0, "init csd") =>
        Probed("init block", "SET_BLOCKLEN", 0, 0, "init csd")
  BY DEF Probe, Probed, sdTransaction, sdCommand, Replied, Transacted, Transfers
<1> QED BY <1>1, <1>2, <1>3, <1>4, <1>5 DEF InitDetect, InitBlockLen

LEMMA InitCcsForm ==
    ASSUME InitCcs
    PROVE  /\ pc = "init ccs"
           /\ \/ Repeats("READ_OCR", 0)
              \/ \E token, h :
                    /\ Transacted("READ_OCR", 0, token, h)
                    /\ IF token = 0
                       THEN Continue("init detect",
                              [h EXCEPT !.type = IF card.kind.v = "SDHC" THEN "CARD_SDHC" ELSE "CARD_SD"])
                       ELSE Unknown(h)
BY DEF InitCcs, sdTransaction, sdCommand, Replied, Transacted, Transfers

LEMMA InitOp1Form ==
    ASSUME InitOp1
    PROVE  /\ pc = "init op 1"
           /\ \/ Repeats("APP_OP_COND", 0)
              \/ \E token, h :
                    /\ Transacted("APP_OP_COND", 0, token, h)
                    /\ IF token = 0 THEN Continue("init detect", [h EXCEPT !.type = "CARD_SD"])
                       ELSE Continue("init op mmc", h)
BY DEF InitOp1, sdTransaction, sdCommand, Replied, Transacted, Transfers

LEMMA InitMmcForm ==
    ASSUME InitMmc
    PROVE  /\ pc = "init op mmc"
           /\ \/ Repeats("SEND_OP_COND", 0)
              \/ \E token, h :
                    /\ Transacted("SEND_OP_COND", 0, token, h)
                    /\ IF token = 0 THEN Continue("init detect", [h EXCEPT !.type = "CARD_MMC"])
                       ELSE Continue("init op mmc", h)
BY DEF InitMmc, sdTransaction, sdCommand, Replied, Transacted, Transfers

LEMMA InitSectorsForm ==
    ASSUME InitSectors
    PROVE  /\ pc = "init csd"
           /\ \/ Repeats("SEND_CSD", 0)
              \/ \E token, h : /\ Transacted("SEND_CSD", 0, token, h)
                               /\ Return("RES_OK", [h EXCEPT !.noinit = FALSE])
BY DEF InitSectors, sdTransaction, sdCommand, Replied, Transacted, Transfers

\* The forms of the other steps that send a command.
LEMMA OtherForms ==
    /\ ff_sd_status =>
        /\ pc = "status"
        /\ \/ Repeats("SEND_STATUS", 0)
           \/ \E token, h : /\ Transacted("SEND_STATUS", 0, token, h)
                            /\ Return(IF token # 0 \/ h.noinit THEN "STA_NOINIT" ELSE "RES_OK", h)
    /\ EndBegin =>
        /\ pc = "end"
        /\ \/ Repeats("GO_IDLE_STATE", 0)
           \/ \E token, h : Transacted("GO_IDLE_STATE", 0, token, h) /\ Return("none", NewHost)
<1>1. ff_sd_status =>
        /\ pc = "status"
        /\ \/ Repeats("SEND_STATUS", 0)
           \/ \E token, h : /\ Transacted("SEND_STATUS", 0, token, h)
                            /\ Return(IF token # 0 \/ h.noinit THEN "STA_NOINIT" ELSE "RES_OK", h)
  BY DEF ff_sd_status, sdTransaction, sdCommand, Replied, Transacted, Transfers
<1>2. EndBegin =>
        /\ pc = "end"
        /\ \/ Repeats("GO_IDLE_STATE", 0)
           \/ \E token, h : Transacted("GO_IDLE_STATE", 0, token, h) /\ Return("none", NewHost)
  BY DEF EndBegin, sdTransaction, sdCommand, Replied, Transacted, Transfers
<1> QED BY <1>1, <1>2

TransferCommand(single, multiple) == IF op.range.count = 1 THEN single ELSE multiple
ReadTransfer == TransferCommand("READ_BLOCK_SINGLE", "READ_BLOCK_MULTIPLE")
WriteTransfer == TransferCommand("WRITE_BLOCK_SINGLE", "WRITE_BLOCK_MULTIPLE")
Place == Argument(op.range.sector + done)

\* The forms of the steps of ff_sd_read and ff_sd_write that send a command.
LEMMA ReadCommandForm ==
    ASSUME ReadCommand
    PROVE  /\ pc = "read command"
           /\ \/ Repeats(ReadTransfer, Place)
              \/ \E cmd, arg, token, h :
                    /\ cmd = ReadTransfer
                    /\ arg = Place
                    /\ Replied(cmd, arg, token, h)
                    /\ IF token = 0 THEN Continue("read bytes", h) ELSE ErrorOf(h)
<1> SUFFICES ASSUME ~Repeats(ReadTransfer, Place)
             PROVE  \E cmd, arg, token, h :
                      /\ cmd = ReadTransfer
                      /\ arg = Place
                      /\ Replied(cmd, arg, token, h)
                      /\ IF token = 0 THEN Continue("read bytes", h) ELSE ErrorOf(h)
  BY DEF ReadCommand, sdCommand, ReadTransfer, TransferCommand, Place
<1>1. PICK cmd, arg : /\ cmd = ReadTransfer
                      /\ arg = Place
  OBVIOUS
<1>2. \/ /\ Answers(cmd, arg)
         /\ IF Token(cmd, arg) = 0 THEN Continue("read bytes", Known(Token(cmd, arg))) ELSE ErrorOf(Known(Token(cmd, arg)))
      \/ Misread(cmd) /\ Continue("read bytes", Known(0))
      \/ /\ GivesUp(cmd, arg) \/ NotAnnounced(cmd)
         /\ \E token \in {NoToken, CrcError} :
                IF token = 0 THEN Continue("read bytes", Known(token)) ELSE ErrorOf(Known(token))
  BY <1>1 DEF ReadCommand, sdCommand, ReadTransfer, TransferCommand, Place
<1> QED BY <1>1, <1>2 DEF Replied

LEMMA ReadStopForm ==
    ASSUME ReadStop
    PROVE  /\ pc = "read stop"
           /\ \/ Repeats("STOP_TRANSMISSION", 0)
              \/ \E token, h :
                    /\ Replied("STOP_TRANSMISSION", 0, token, h)
                    /\ \/ token # 0 /\ ErrorOf(h)
                       \/ token = 0 /\ done = op.range.count /\ Return("RES_OK", Deselected(h))
                       \/ token = 0 /\ done # op.range.count /\ Retry(f, "read", h)
BY DEF ReadStop, sdCommand, Replied

LEMMA WriteEraseForm ==
    ASSUME WriteErase
    PROVE  /\ pc = "write erase"
           /\ \/ /\ host.type = "CARD_MMC" /\ Continue("write", host)
                 /\ UNCHANGED <<data, try, card, faults>>
              \/ host.type # "CARD_MMC" /\ Repeats("SET_WR_BLK_ERASE_COUNT", 0)
              \/ host.type # "CARD_MMC" /\ \E token, h :
                    /\ Transacted("SET_WR_BLK_ERASE_COUNT", 0, token, h)
                    /\ IF token = 0 THEN Continue("write", h) ELSE ErrorOf(h)
BY DEF WriteErase, sdTransaction, sdCommand, Replied, Transacted, Transfers

LEMMA WriteCommandForm ==
    ASSUME WriteCommand
    PROVE  /\ pc = "write command"
           /\ \/ Repeats(WriteTransfer, Place)
              \/ \E cmd, arg, token, h :
                    /\ cmd = WriteTransfer
                    /\ arg = Place
                    /\ Replied(cmd, arg, token, h)
                    /\ IF token = 0 THEN Continue("write bytes", h) ELSE ErrorOf(h)
<1> SUFFICES ASSUME ~Repeats(WriteTransfer, Place)
             PROVE  \E cmd, arg, token, h :
                      /\ cmd = WriteTransfer
                      /\ arg = Place
                      /\ Replied(cmd, arg, token, h)
                      /\ IF token = 0 THEN Continue("write bytes", h) ELSE ErrorOf(h)
  BY DEF WriteCommand, sdCommand, WriteTransfer, TransferCommand, Place
<1>1. PICK cmd, arg : /\ cmd = WriteTransfer
                      /\ arg = Place
  OBVIOUS
<1>2. \/ /\ Answers(cmd, arg)
         /\ IF Token(cmd, arg) = 0 THEN Continue("write bytes", Known(Token(cmd, arg))) ELSE ErrorOf(Known(Token(cmd, arg)))
      \/ Misread(cmd) /\ Continue("write bytes", Known(0))
      \/ /\ GivesUp(cmd, arg) \/ NotAnnounced(cmd)
         /\ \E token \in {NoToken, CrcError} :
                IF token = 0 THEN Continue("write bytes", Known(token)) ELSE ErrorOf(Known(token))
  BY <1>1 DEF WriteCommand, sdCommand, WriteTransfer, TransferCommand, Place
<1> QED BY <1>1, <1>2 DEF Replied

LEMMA WriteStopForm ==
    ASSUME WriteStop
    PROVE  /\ pc = "write stop"
           /\ \/ Repeats("STOP_TRANSMISSION", 0)
              \/ \E token, h :
                    /\ Replied("STOP_TRANSMISSION", 0, token, h)
                    /\ IF token = 0 /\ Repeated(answer)
                       THEN Continue("write number", Deselected(h)) ELSE ErrorOf(h)
BY DEF WriteStop, sdCommand, Replied

LEMMA WriteNumberForm ==
    ASSUME WriteNumber
    PROVE  /\ pc = "write number"
           /\ \/ /\ host.type = "CARD_MMC" /\ Resume(0, host)
                 /\ UNCHANGED <<data, try, card, faults>>
              \/ host.type # "CARD_MMC" /\ Repeats("SEND_NUM_WR_BLOCKS", 0)
              \/ host.type # "CARD_MMC" /\ \E token, h :
                    /\ Transacted("SEND_NUM_WR_BLOCKS", 0, token, h)
                    /\ \E written \in {0, card.well} : Resume(written, h)
              \/ Miscounted
BY DEF WriteNumber, Miscounted, sdTransaction, sdCommand, Replied, Transacted, Transfers

LEMMA WriteStatusForm ==
    ASSUME WriteStatus
    PROVE  /\ pc = "write status"
           /\ \/ Repeats("SEND_STATUS", 0)
              \/ \E token, h : /\ Transacted("SEND_STATUS", 0, token, h)
                               /\ IF token = 0 THEN Return("RES_OK", h) ELSE ErrorOf(h)
              \/ WriteError
BY DEF WriteStatus, WriteError, sdTransaction, sdCommand, Replied, Transacted, Transfers

-----------------------------------------------------------------------------
\* The changes a step makes to ardu_sdcard_t.
LEMMA HostUpdates ==
    ASSUME host \in HostStates, NEW token
    PROVE  /\ Known(token) \in HostStates
           /\ Known(token).type = host.type
           /\ Known(token).supports_crc = host.supports_crc
           /\ Known(token).selected = host.selected
           /\ Known(token).noinit \in {host.noinit, TRUE}
           /\ token # NoToken => Known(token) = host
BY DEF HostStates, Known

LEMMA HostDeselected ==
    ASSUME NEW h \in HostStates
    PROVE  /\ Deselected(h) \in HostStates
           /\ ~Deselected(h).selected
           /\ Deselected(h).type = h.type
           /\ Deselected(h).supports_crc = h.supports_crc
           /\ Deselected(h).noinit = h.noinit
BY DEF HostStates, Deselected

\* What a command that is sent again changes: it was not executed, or it was.
LEMMA Repeating ==
    ASSUME TypeOK, card \in CardStates, NEW cmd, NEW arg, Repeats(cmd, arg)
    PROVE  /\ try' = try + 1 /\ try' \in 0 .. 2
           /\ lost' = lost + 1 /\ lost' \in 0 .. MaxFaults
           /\ pc' = pc /\ op' = op /\ f' = f /\ done' = done /\ result' = result
           /\ buffer' = buffer /\ answer' = answer
           /\ host' = host
           /\ card' \in CardStates /\ card'.kind = card.kind /\ card'.block = card.block
           /\ cmd \notin Transfers => card'.well = card.well
           /\ spoilt' \in BOOLEAN /\ (spoilt => spoilt')
           /\ \/ card' = card /\ spoilt' = spoilt
              \/ card' = Executed(cmd, arg) /\ spoilt' = (spoilt \/ cmd \in Transfers \cup {"STOP_TRANSMISSION"})
<1>1. Unanswered(cmd, arg) /\ try + 1 < 3 /\ try' = try + 1 /\ UNCHANGED <<pc, call, data, host>>
  BY DEF Repeats, Attempts
<1>2. /\ lost < MaxFaults /\ lost' = lost + 1
      /\ \/ card' = card /\ spoilt' = spoilt
         \/ card' = Executed(cmd, arg) /\ spoilt' = (spoilt \/ cmd \in Transfers \cup {"STOP_TRANSMISSION"})
  BY <1>1 DEF Unanswered
<1>3. try' \in 0 .. 2 /\ lost' \in 0 .. MaxFaults /\ spoilt \in BOOLEAN
  BY <1>1, <1>2, CardAssumption DEF TypeOK
<1>4. /\ card' \in CardStates /\ card'.kind = card.kind /\ card'.block = card.block
      /\ cmd \notin Transfers => card'.well = card.well
  BY <1>2, Execution
<1>5. spoilt' \in BOOLEAN /\ (spoilt => spoilt')
  BY <1>2, <1>3
<1>6. pc' = pc /\ op' = op /\ f' = f /\ done' = done /\ result' = result /\ buffer' = buffer /\ answer' = answer /\ host' = host
  BY <1>1 DEF call, data
<1> QED BY <1>1, <1>2, <1>3, <1>4, <1>5, <1>6

\* What one that came to an end changes, besides the step of the call.
Settled ==
    /\ try' = 0
    /\ lost' \in {lost, lost + 1} /\ lost' \in 0 .. MaxFaults
    /\ lost' = lost + 1 => try = 2
    /\ spoilt' \in {spoilt, TRUE}
    /\ buffer' = buffer /\ answer' = answer
    /\ card' \in CardStates
    /\ card'.kind = card.kind /\ card'.block = card.block

\* What became of the command: it was answered, or understood as one for another
\* sector, or given up, after it was executed or not at all.
Outcome(cmd, arg, token) ==
    \/ card' = Executed(cmd, arg) /\ token = Token(cmd, arg) /\ lost' = lost /\ spoilt' = spoilt
    \/ Misread(cmd) /\ token = 0
    \/ /\ token \in {NoToken, CrcError}
       /\ (lost' = lost + 1 /\ try = 2) \/ spoilt'
       /\ card' = card \/ (card' = Executed(cmd, arg) /\ (cmd \in Transfers \cup {"STOP_TRANSMISSION"} => spoilt'))

\* A card that begins a transfer at another sector.
LEMMA Misreading ==
    ASSUME TypeOK, card \in CardStates, NEW cmd, Misread(cmd)
    PROVE  /\ Settled /\ spoilt' /\ ~host.supports_crc /\ cmd \in Transfers
           /\ card'.mode \in Sectors /\ card'.well = 0
           /\ card.power = "ready" /\ card'.power = "ready" /\ card'.crcOn = card.crcOn
<1>1. /\ ~host.supports_crc /\ cmd \in Transfers /\ card.power = "ready"
      /\ try' = 0 /\ spoilt' = TRUE /\ buffer' = buffer /\ answer' = answer /\ lost' = lost
  BY DEF Misread, data
<1>2. PICK s \in Sectors : card' = [card EXCEPT !.mode = s, !.well = 0]
  BY DEF Misread
<1>3. 0 \in Nat /\ s \in Places
  BY DEF Places
<1>4. card' \in CardStates /\ card'.kind = card.kind /\ card'.block = card.block
  BY <1>2, <1>3, Transferring
<1>5. card'.mode = s /\ card'.well = 0 /\ card'.power = card.power /\ card'.crcOn = card.crcOn
  BY <1>2 DEF CardStates
<1>6. Settled
  BY <1>1, <1>4 DEF Settled, TypeOK
<1> QED BY <1>1, <1>5, <1>6

\* What sdCommand changes before the call goes on.
LEMMA Replies ==
    ASSUME TypeOK, card \in CardStates, NEW cmd, NEW arg, NEW token, NEW h, Replied(cmd, arg, token, h)
    PROVE  /\ Settled
           /\ h \in HostStates
           /\ h.type = host.type /\ h.supports_crc = host.supports_crc /\ h.selected = host.selected
           /\ h.noinit \in {host.noinit, TRUE}
           /\ token # NoToken => h.noinit = host.noinit
           /\ Outcome(cmd, arg, token)
<1>1. host \in HostStates
  BY DEF TypeOK, HostStates
<1>2. h = Known(token)
  BY DEF Replied
<1>3. /\ h \in HostStates
      /\ h.type = host.type /\ h.supports_crc = host.supports_crc /\ h.selected = host.selected
      /\ h.noinit \in {host.noinit, TRUE}
      /\ token # NoToken => h.noinit = host.noinit
  BY <1>1, <1>2, HostUpdates
<1>4. CASE Answers(cmd, arg) /\ token = Token(cmd, arg)
  <2>1. /\ try' = 0 /\ card' = Executed(cmd, arg)
        /\ lost' = lost /\ spoilt' = spoilt /\ buffer' = buffer /\ answer' = answer
    BY <1>4 DEF Answers, data, faults
  <2>2. Settled
    BY <2>1, Execution DEF Settled, TypeOK
  <2> QED BY <1>3, <1>4, <2>1, <2>2 DEF Outcome
<1>5. CASE Misread(cmd) /\ token = 0
  BY <1>3, <1>5, Misreading DEF Outcome
<1>6. CASE GivesUp(cmd, arg) /\ token \in {NoToken, CrcError}
  <2>1. /\ try' = 0 /\ buffer' = buffer /\ answer' = answer
        /\ lost' = lost + 1 /\ lost < MaxFaults /\ try + 1 >= 3
        /\ \/ card' = card /\ spoilt' = spoilt
           \/ card' = Executed(cmd, arg) /\ spoilt' = (spoilt \/ cmd \in Transfers \cup {"STOP_TRANSMISSION"})
    BY <1>6 DEF GivesUp, Unanswered, data, Attempts
  <2>2. lost' \in 0 .. MaxFaults /\ try = 2 /\ spoilt \in BOOLEAN
    BY <2>1, CardAssumption DEF TypeOK
  <2>3. card' \in CardStates /\ card'.kind = card.kind /\ card'.block = card.block
    BY <2>1, Execution
  <2>4. spoilt' \in {spoilt, TRUE}
    BY <2>1, <2>2
  <2>5. Settled
    BY <2>1, <2>2, <2>3, <2>4 DEF Settled
  <2>6. card' = card \/ (card' = Executed(cmd, arg) /\ (cmd \in Transfers \cup {"STOP_TRANSMISSION"} => spoilt'))
    BY <2>1
  <2> QED BY <1>3, <1>6, <2>1, <2>2, <2>5, <2>6 DEF Outcome
<1>7. CASE NotAnnounced(cmd) /\ token \in {NoToken, CrcError}
  <2>1. /\ try' = 0 /\ card' = card /\ buffer' = buffer /\ answer' = answer /\ lost' = lost /\ spoilt' = TRUE
    BY <1>7 DEF NotAnnounced, data
  <2>2. Settled
    BY <2>1 DEF Settled, TypeOK
  <2> QED BY <1>3, <1>7, <2>1, <2>2 DEF Outcome
<1> QED BY <1>4, <1>5, <1>6, <1>7 DEF Replied

\* The same of sdTransaction, which selects the card first.
LEMMA Transactions ==
    ASSUME TypeOK, card \in CardStates, NEW cmd, NEW arg, NEW token, NEW h, Transacted(cmd, arg, token, h)
    PROVE  /\ Settled /\ cmd \notin Transfers
           /\ h \in HostStates
           /\ h.type = host.type /\ h.supports_crc = host.supports_crc
           /\ ~host.selected => ~h.selected
           /\ h.noinit \in {host.noinit, TRUE}
           /\ token # NoToken => h.noinit = host.noinit
           /\ Outcome(cmd, arg, token)
<1>0. cmd \notin Transfers
  BY DEF Transacted
<1>1. CASE NotSelected /\ token = NoToken /\ h = host
  <2>1. host \in HostStates
    BY DEF TypeOK, HostStates
  <2>2. try' = 0 /\ spoilt' = TRUE /\ buffer' = buffer /\ answer' = answer /\ card' = card /\ lost' = lost
    BY <1>1 DEF NotSelected, data
  <2>3. Settled
    BY <2>2 DEF Settled, TypeOK
  <2> QED BY <1>0, <1>1, <2>1, <2>2, <2>3 DEF HostStates, Outcome
<1>2. CASE \E g : Replied(cmd, arg, token, g) /\ h = Deselected(g)
  <2>1. PICK g : Replied(cmd, arg, token, g) /\ h = Deselected(g)
    BY <1>2
  <2>2. /\ g \in HostStates
        /\ g.type = host.type /\ g.supports_crc = host.supports_crc
        /\ g.noinit \in {host.noinit, TRUE}
        /\ token # NoToken => g.noinit = host.noinit
    BY <2>1, Replies
  <2>3. /\ h \in HostStates
        /\ h.type = host.type /\ h.supports_crc = host.supports_crc
        /\ ~h.selected
        /\ h.noinit \in {host.noinit, TRUE}
        /\ token # NoToken => h.noinit = host.noinit
    BY <2>1, <2>2, HostDeselected
  <2> QED BY <1>0, <2>1, <2>3, Replies
<1> QED BY <1>1, <1>2 DEF Transacted

-----------------------------------------------------------------------------
\* What a step of ff_sd_initialize may change.
InitMove ==
    /\ pc \in InitSteps /\ pc' \in InitSteps \cup {"idle"}
    /\ op' = op /\ f' = 0 /\ done' = 0
    /\ try' \in 0 .. 2 /\ (pc' = "idle" => try' = 0)
    /\ buffer' = buffer /\ answer' = answer
    /\ result' \in {"none", "RES_OK", "RES_ERROR", "STA_NOINIT"}
    /\ host' \in HostStates /\ (~host.selected => ~host'.selected)
    /\ card' \in CardStates /\ card'.block = card.block
    /\ lost' \in 0 .. MaxFaults /\ spoilt' \in BOOLEAN

\* The parts of the type invariant that most steps need.
LEMMA TypeParts ==
    ASSUME TypeInv
    PROVE  /\ TypeOK /\ pc \in Steps /\ card \in CardStates /\ host \in HostStates
           /\ f \in 0 .. 3 /\ try \in 0 .. 2 /\ done \in Int /\ answer \in 0 .. 31
           /\ lost \in 0 .. MaxFaults /\ spoilt \in BOOLEAN
           /\ result \in {"none", "RES_OK", "RES_ERROR", "STA_NOINIT"}
           /\ host.noinit \in BOOLEAN /\ host.supports_crc \in BOOLEAN /\ host.selected \in BOOLEAN
BY DEF TypeInv, TypeOK, HostStates

LEMMA Unsettled ==
    ASSUME TypeInv, UNCHANGED <<data, try, card, lost>>, try = 0, spoilt' \in {spoilt, TRUE}
    PROVE  Settled
<1>1. buffer' = buffer /\ answer' = answer /\ try' = 0 /\ card' = card /\ lost' = lost
  BY DEF data
<1>2. lost' # lost + 1
  BY <1>1, TypeParts, CardAssumption
<1> QED BY <1>1, <1>2, TypeParts DEF Settled

\* A step of ff_sd_initialize moves within its steps, or returns.
LEMMA InitRepeats ==
    ASSUME TypeInv, pc \in InitSteps, NEW cmd, NEW arg, Repeats(cmd, arg)
    PROVE  InitMove
<1>1. f = 0 /\ done = 0
  BY DEF TypeInv, Counts, InitSteps, ReadSteps, WriteSteps
<1>2. pc # "idle"
  BY DEF InitSteps
<1> QED BY <1>1, <1>2, TypeParts, Repeating DEF InitMove

LEMMA InitGoesOn ==
    ASSUME TypeInv, pc \in InitSteps, Settled, NEW h \in HostStates, ~host.selected => ~h.selected,
           \/ \E step \in InitSteps : Continue(step, h)
           \/ Unknown(h)
           \/ Return("RES_OK", h)
    PROVE  InitMove
<1>1. f = 0 /\ done = 0
  BY DEF TypeInv, Counts, InitSteps, ReadSteps, WriteSteps
<1>2. /\ try' \in 0 .. 2 /\ (pc' = "idle" => try' = 0)
      /\ buffer' = buffer /\ answer' = answer
      /\ card' \in CardStates /\ card'.block = card.block
      /\ lost' \in 0 .. MaxFaults /\ spoilt' \in BOOLEAN
  <2>1. try' \in 0 .. 2
    BY DEF Settled
  <2>2. spoilt' \in BOOLEAN
    BY TypeParts DEF Settled
  <2> QED BY <2>1, <2>2 DEF Settled
<1>3. CASE \E step \in InitSteps : Continue(step, h)
  BY <1>1, <1>2, <1>3, TypeParts DEF InitMove, Continue, call
<1>4. CASE Return("RES_OK", h)
  BY <1>1, <1>2, <1>4 DEF InitMove, Return
<1>5. CASE Unknown(h)
  <2>1. Deselected(h) \in HostStates /\ ~Deselected(h).selected
    BY HostDeselected
  <2>2. /\ [Deselected(h) EXCEPT !.type = "CARD_UNKNOWN"] \in HostStates
        /\ ~[Deselected(h) EXCEPT !.type = "CARD_UNKNOWN"].selected
    BY <2>1 DEF HostStates
  <2> QED BY <1>1, <1>2, <1>5, <2>2 DEF InitMove, Return, Unknown
<1> QED BY <1>3, <1>4, <1>5

LEMMA HostTyped ==
    ASSUME NEW h \in HostStates,
           NEW t \in {"CARD_NONE", "CARD_UNKNOWN", "CARD_SD", "CARD_SDHC", "CARD_MMC"}
    PROVE  /\ [h EXCEPT !.type = t] \in HostStates
           /\ [h EXCEPT !.type = t].type = t
           /\ [h EXCEPT !.type = t].selected = h.selected
           /\ [h EXCEPT !.type = t].noinit = h.noinit
           /\ [h EXCEPT !.type = t].supports_crc = h.supports_crc
BY DEF HostStates

LEMMA HostFlagged ==
    ASSUME NEW h \in HostStates
    PROVE  /\ [h EXCEPT !.supports_crc = FALSE] \in HostStates
           /\ [h EXCEPT !.supports_crc = FALSE].type = h.type
           /\ [h EXCEPT !.supports_crc = FALSE].selected = h.selected
           /\ [h EXCEPT !.supports_crc = FALSE].noinit = h.noinit
           /\ ~[h EXCEPT !.supports_crc = FALSE].supports_crc
           /\ [h EXCEPT !.noinit = FALSE] \in HostStates
           /\ [h EXCEPT !.noinit = FALSE].type = h.type
           /\ [h EXCEPT !.noinit = FALSE].selected = h.selected
           /\ ~[h EXCEPT !.noinit = FALSE].noinit
           /\ [h EXCEPT !.noinit = FALSE].supports_crc = h.supports_crc
BY DEF HostStates

LEMMA InitMoves ==
    ASSUME TypeInv, ff_sd_initialize
    PROVE  InitMove
<1> USE TypeParts
<1>a. {"init", "init crc", "init if", "init ocr 1", "init ocr 2", "init op 1", "init op 2",
       "init op mmc", "init ccs", "init detect", "init block", "init csd"} = InitSteps
  BY DEF InitSteps
<1>1. ASSUME NEW step \in InitSteps, NEW cmd, NEW arg, NEW wanted, NEW next \in InitSteps,
             Probed(step, cmd, arg, wanted, next)
      PROVE  InitMove
  <2>1. CASE Repeats(cmd, arg)
    BY <1>1, <2>1, InitRepeats DEF Probed
  <2>2. CASE ~Repeats(cmd, arg)
    <3>1. PICK token, h : /\ Transacted(cmd, arg, token, h)
                          /\ IF token = wanted THEN Continue(next, h) ELSE Unknown(h)
      BY <1>1, <2>2 DEF Probed
    <3>2. Settled /\ h \in HostStates /\ (~host.selected => ~h.selected)
      BY <3>1, Transactions
    <3> QED BY <1>1, <3>1, <3>2, InitGoesOn DEF Probed
  <2> QED BY <2>1, <2>2
<1>2. CASE InitIdle
  <2>1. CASE Repeats("GO_IDLE_STATE", 0)
    BY <1>2, <1>a, <2>1, InitIdleForm, InitRepeats
  <2>2. CASE ~Repeats("GO_IDLE_STATE", 0)
    <3>1. PICK token, h : /\ Replied("GO_IDLE_STATE", 0, token, h)
                          /\ IF token = 1 THEN Continue("init crc", Deselected(h)) ELSE Unknown(h)
      BY <1>2, <2>2, InitIdleForm
    <3>2. Settled /\ h \in HostStates /\ h.selected = host.selected
      BY <3>1, Replies
    <3>3. Deselected(h) \in HostStates /\ ~Deselected(h).selected
      BY <3>2, HostDeselected
    <3> QED BY <1>2, <1>a, <3>1, <3>2, <3>3, InitIdleForm, InitGoesOn
  <2> QED BY <2>1, <2>2
<1>3. CASE InitCrc
  <2>1. CASE Repeats("CRC_ON_OFF", 1)
    BY <1>3, <1>a, <2>1, InitCrcForm, InitRepeats
  <2>2. CASE ~Repeats("CRC_ON_OFF", 1)
    <3>1. PICK token, h : /\ Transacted("CRC_ON_OFF", 1, token, h)
                          /\ \/ token = 1 /\ Continue("init if", h)
                             \/ token = 5 /\ Continue("init if", [h EXCEPT !.supports_crc = FALSE])
                             \/ token \notin {1, 5} /\ Unknown(h)
      BY <1>3, <2>2, InitCrcForm
    <3>2. Settled /\ h \in HostStates /\ (~host.selected => ~h.selected)
      BY <3>1, Transactions
    <3>3. /\ [h EXCEPT !.supports_crc = FALSE] \in HostStates
          /\ [h EXCEPT !.supports_crc = FALSE].selected = h.selected
      BY <3>2, HostFlagged
    <3> QED BY <1>3, <1>a, <3>1, <3>2, <3>3, InitCrcForm, InitGoesOn
  <2> QED BY <2>1, <2>2
<1>4. CASE InitIf
  <2>1. CASE Repeats("SEND_IF_COND", 0)
    BY <1>4, <1>a, <2>1, InitIfForm, InitRepeats
  <2>2. CASE ~Repeats("SEND_IF_COND", 0)
    <3>1. PICK token, h : /\ Transacted("SEND_IF_COND", 0, token, h)
                          /\ Continue(IF token = 1 THEN "init ocr 2" ELSE "init ocr 1", h)
      BY <1>4, <2>2, InitIfForm
    <3>2. Settled /\ h \in HostStates /\ (~host.selected => ~h.selected)
      BY <3>1, Transactions
    <3>3. (IF token = 1 THEN "init ocr 2" ELSE "init ocr 1") \in InitSteps
      BY <1>a
    <3> QED BY <1>4, <1>a, <3>1, <3>2, <3>3, InitIfForm, InitGoesOn
  <2> QED BY <2>1, <2>2
<1>5. CASE InitVoltage
  <2>1. pc \in InitSteps
    BY <1>5, <1>a DEF InitVoltage
  <2>2. Settled
    BY <1>5, Unsettled DEF InitVoltage
  <2> QED BY <1>5, <2>1, <2>2, InitGoesOn DEF InitVoltage
<1>6. CASE InitOcr2 \/ InitOp2 \/ InitOcr1
  BY <1>6, <1>a, <1>1, ProbeForms
<1>7. CASE InitCcs
  <2>1. CASE Repeats("READ_OCR", 0)
    BY <1>7, <1>a, <2>1, InitCcsForm, InitRepeats
  <2>2. CASE ~Repeats("READ_OCR", 0)
    <3>1. PICK token, h :
            /\ Transacted("READ_OCR", 0, token, h)
            /\ IF token = 0
               THEN Continue("init detect",
                      [h EXCEPT !.type = IF card.kind.v = "SDHC" THEN "CARD_SDHC" ELSE "CARD_SD"])
               ELSE Unknown(h)
      BY <1>7, <2>2, InitCcsForm
    <3>2. Settled /\ h \in HostStates /\ (~host.selected => ~h.selected)
      BY <3>1, Transactions
    <3> DEFINE t == IF card.kind.v = "SDHC" THEN "CARD_SDHC" ELSE "CARD_SD"
    <3>3. t \in {"CARD_NONE", "CARD_UNKNOWN", "CARD_SD", "CARD_SDHC", "CARD_MMC"}
      OBVIOUS
    <3>4. [h EXCEPT !.type = t] \in HostStates /\ [h EXCEPT !.type = t].selected = h.selected
      BY <3>2, <3>3, HostTyped DEF HostStates
    <3> QED BY <1>7, <1>a, <3>1, <3>2, <3>4, InitCcsForm, InitGoesOn
  <2> QED BY <2>1, <2>2
<1>8. CASE InitOp1
  <2>1. CASE Repeats("APP_OP_COND", 0)
    BY <1>8, <1>a, <2>1, InitOp1Form, InitRepeats
  <2>2. CASE ~Repeats("APP_OP_COND", 0)
    <3>1. PICK token, h :
            /\ Transacted("APP_OP_COND", 0, token, h)
            /\ IF token = 0 THEN Continue("init detect", [h EXCEPT !.type = "CARD_SD"])
               ELSE Continue("init op mmc", h)
      BY <1>8, <2>2, InitOp1Form
    <3>2. Settled /\ h \in HostStates /\ (~host.selected => ~h.selected)
      BY <3>1, Transactions
    <3>3. [h EXCEPT !.type = "CARD_SD"] \in HostStates /\ [h EXCEPT !.type = "CARD_SD"].selected = h.selected
      BY <3>2, HostTyped
    <3> QED BY <1>8, <1>a, <3>1, <3>2, <3>3, InitOp1Form, InitGoesOn
  <2> QED BY <2>1, <2>2
<1>9. CASE InitMmc
  <2>1. CASE Repeats("SEND_OP_COND", 0)
    BY <1>9, <1>a, <2>1, InitMmcForm, InitRepeats
  <2>2. CASE ~Repeats("SEND_OP_COND", 0)
    <3>1. PICK token, h :
            /\ Transacted("SEND_OP_COND", 0, token, h)
            /\ IF token = 0 THEN Continue("init detect", [h EXCEPT !.type = "CARD_MMC"])
               ELSE Continue("init op mmc", h)
      BY <1>9, <2>2, InitMmcForm
    <3>2. Settled /\ h \in HostStates /\ (~host.selected => ~h.selected)
      BY <3>1, Transactions
    <3>3. [h EXCEPT !.type = "CARD_MMC"] \in HostStates /\ [h EXCEPT !.type = "CARD_MMC"].selected = h.selected
      BY <3>2, HostTyped
    <3> QED BY <1>9, <1>a, <3>1, <3>2, <3>3, InitMmcForm, InitGoesOn
  <2> QED BY <2>1, <2>2
<1>10. CASE InitSlow
  <2>1. pc \in InitSteps
    BY <1>10, <1>a DEF InitSlow
  <2>2. Settled
    BY <1>10, Unsettled DEF InitSlow
  <2> QED BY <1>10, <1>a, <2>1, <2>2, InitGoesOn DEF InitSlow
<1>11. ASSUME UNCHANGED <<data, try, card, faults>>, NEW step \in InitSteps, Continue(step, host), pc \in InitSteps
       PROVE  InitMove
  BY <1>11, <1>a DEF InitMove, Continue, call, data, faults, TypeInv, Counts, InitSteps, ReadSteps, WriteSteps
<1>12. CASE InitDetect
  BY <1>12, <1>a, <1>1, <1>11, ProbeForms
<1>13. CASE InitBlockLen
  BY <1>13, <1>a, <1>1, <1>11, ProbeForms
<1>14. CASE InitSectors
  <2>1. CASE Repeats("SEND_CSD", 0)
    BY <1>14, <1>a, <2>1, InitSectorsForm, InitRepeats
  <2>2. CASE ~Repeats("SEND_CSD", 0)
    <3>1. PICK token, h : /\ Transacted("SEND_CSD", 0, token, h)
                          /\ Return("RES_OK", [h EXCEPT !.noinit = FALSE])
      BY <1>14, <2>2, InitSectorsForm
    <3>2. Settled /\ h \in HostStates /\ (~host.selected => ~h.selected)
      BY <3>1, Transactions
    <3>3. [h EXCEPT !.noinit = FALSE] \in HostStates /\ [h EXCEPT !.noinit = FALSE].selected = h.selected
      BY <3>2, HostFlagged
    <3> QED BY <1>14, <1>a, <3>1, <3>2, <3>3, InitSectorsForm, InitGoesOn
  <2> QED BY <2>1, <2>2
<1> QED BY <1>2, <1>3, <1>4, <1>5, <1>6, <1>7, <1>8, <1>9, <1>10, <1>12, <1>13, <1>14
        DEF ff_sd_initialize

-----------------------------------------------------------------------------
\* Types and counts.
LEMMA OpRange ==
    ASSUME op \in Ops
    PROVE  /\ op.kind = "read" \/ op.kind = "write" =>
                /\ op.range \in Ranges
                /\ op.range.sector \in Sectors /\ op.range.sector \in Nat
                /\ op.range.count \in 1 .. NSectors
                /\ op.range.sector + op.range.count <= NSectors
                /\ op.able \in BOOLEAN
           /\ op.kind = "read" => op.before \in [Sectors -> Block]
           /\ op.kind = "write" => op.version \in Versions
           /\ op.kind = "init" => op.able \in BOOLEAN
BY CardAssumption DEF Ops, Ranges, Sectors

\* The type invariant after a step, part by part.
LEMMA TypeKept ==
    ASSUME op' \in Ops, f' \in 0 .. 3, try' \in 0 .. 2, done' \in Int, answer' \in 0 .. 31,
           result' \in {"none", "RES_OK", "RES_ERROR", "STA_NOINIT"}, host' \in HostStates,
           lost' \in 0 .. MaxFaults, spoilt' \in BOOLEAN, pc' \in Steps, card' \in CardStates,
           CallSteps', Counts'
    PROVE  TypeInv'
BY DEF TypeInv, TypeOK, HostStates

LEMMA ZeroBounds ==
    /\ 0 \in 0 .. 3 /\ 0 \in 0 .. 2 /\ 0 \in 0 .. NSectors /\ 0 \in 0 .. MaxFaults /\ 0 # 3
    /\ 5 \in 0 .. 31 /\ 31 \in 0 .. 31 /\ 0 \in Int
BY CardAssumption

LEMMA SettledType ==
    ASSUME TypeInv, Settled
    PROVE  /\ try' = 0 /\ try' \in 0 .. 2 /\ answer' \in 0 .. 31
           /\ lost' \in 0 .. MaxFaults /\ card' \in CardStates
           /\ spoilt' \in BOOLEAN /\ spoilt' \in {spoilt, TRUE}
<1>1. spoilt' \in BOOLEAN
  BY TypeParts DEF Settled
<1> QED BY <1>1, ZeroBounds, TypeParts DEF Settled

\* The type invariant, for each way a step ends.
LEMMA InitTyped ==
    ASSUME TypeInv, InitMove
    PROVE  TypeInv'
<1>1. op' \in Ops /\ answer' \in 0 .. 31
  BY DEF InitMove, TypeInv, TypeOK
<1>2. op.kind = "init"
  BY DEF TypeInv, CallSteps, InitMove
<1>3. pc' \in Steps
  BY DEF InitMove, Steps
<1>4. CallSteps'
  BY <1>2 DEF InitMove, CallSteps, InitSteps, ReadSteps, WriteSteps
<1>5. Counts'
  <2>1. /\ pc' \notin ReadSteps \cup WriteSteps
        /\ pc' \notin {"read", "read bytes", "write", "write bytes", "sync"}
        /\ pc' \notin {"write erase", "write wait", "write stop", "write number"}
    BY DEF InitMove, InitSteps, ReadSteps, WriteSteps
  <2>2. f' = 0 /\ done' = 0 /\ (pc' = "idle" => try' = 0)
    BY DEF InitMove
  <2>3. (f = 3 => pc \in {"read stop", "write wait", "write stop", "write number", "write status"})'
    <3>1. 0 # 3
      OBVIOUS
    <3> QED BY <2>2, <3>1
  <2>4. ~Counted'
    BY <2>1 DEF Counted
  <2>6. (pc \in {"idle", "read", "read bytes", "write", "write bytes", "write wait", "sync"} => try = 0)'
    BY <2>1, <2>2
  <2> QED BY <2>1, <2>2, <2>3, <2>4, <2>6 DEF Counts
<1> QED BY <1>1, <1>3, <1>4, <1>5, ZeroBounds, TypeKept DEF InitMove

LEMMA ReturnTyped ==
    ASSUME TypeInv, NEW res \in {"none", "RES_OK", "RES_ERROR", "STA_NOINIT"}, NEW h \in HostStates, Return(res, h),
           try' = 0, answer' \in 0 .. 31, lost' \in 0 .. MaxFaults, spoilt' \in BOOLEAN, card' \in CardStates
    PROVE  TypeInv'
<1>1. op' \in Ops /\ pc' = "idle" /\ f' = 0 /\ done' = 0 /\ result' = res /\ host' = h
  BY DEF TypeInv, TypeOK, Return
<1>2. CallSteps' /\ Counts' /\ pc' \in Steps
  BY <1>1 DEF CallSteps, Counts, Counted, InitSteps, ReadSteps, WriteSteps, Steps
<1> QED BY <1>1, <1>2, ZeroBounds, TypeKept

LEMMA ErrorTyped ==
    ASSUME TypeInv, NEW h \in HostStates, ErrorOf(h),
           try' = 0, answer' \in 0 .. 31, lost' \in 0 .. MaxFaults, spoilt' \in BOOLEAN, card' \in CardStates
    PROVE  TypeInv'
BY HostDeselected, ReturnTyped DEF ErrorOf

\* A call of ff_sd_read or ff_sd_write goes on with a step: what the counts must say then.
Fits(step) ==
    /\ done' \in 0 .. op.range.count
    /\ done' = op.range.count => step \in {"read stop", "write wait", "write status"}
    /\ Bounded(step, answer') => card'.well <= done'

GoesOn(step, h) ==
    /\ pc' = step /\ host' = h
    /\ op' = op /\ result' = result
    /\ f' \in 0 .. 3 /\ done' \in Int
    /\ f' = 3 => step \in {"read stop", "write wait", "write stop", "write number", "write status"}
    /\ step \in ReadSteps \/ Intact' => Fits(step)

LEMMA GoesOnTyped ==
    ASSUME TypeInv, NEW step \in ReadSteps \cup WriteSteps, NEW h \in HostStates, GoesOn(step, h),
           \/ pc \in ReadSteps /\ step \in ReadSteps
           \/ pc \in WriteSteps /\ step \in WriteSteps,
           try' = 0, answer' \in 0 .. 31, lost' \in 0 .. MaxFaults, spoilt' \in BOOLEAN, card' \in CardStates
    PROVE  TypeInv'
<1>1. op \in Ops /\ op' \in Ops /\ result' \in {"none", "RES_OK", "RES_ERROR", "STA_NOINIT"}
  BY DEF TypeInv, TypeOK, GoesOn
<1>2. op.kind = "read" \/ op.kind = "write"
  BY DEF TypeInv, CallSteps
<1>3. op.range.count \in 1 .. NSectors
  BY <1>1, <1>2, OpRange
<1>4. op.range.count \in Nat
  BY <1>3, CardAssumption
<1>5. pc' \in Steps
  BY DEF GoesOn, Steps
<1>6. CallSteps'
  BY DEF GoesOn, TypeInv, CallSteps, InitSteps, ReadSteps, WriteSteps
<1>7. Counts'
  <2>1. op' = op /\ pc' = step /\ step \in ReadSteps \cup WriteSteps
    BY DEF GoesOn
  <2>2. pc' # "idle" /\ pc' # "sync"
    BY <2>1 DEF ReadSteps, WriteSteps
  <2>3. ASSUME Counted'
        PROVE  /\ 0 <= done' /\ done' <= op'.range.count
               /\ done' = op'.range.count => pc' \in {"read stop", "write wait", "write status"}
               /\ Bounded(pc', answer') => card'.well <= done'
    <3>1. Fits(step)
      BY <2>1, <2>3 DEF Counted, GoesOn
    <3>2. done' \in 0 .. op.range.count
      BY <3>1 DEF Fits
    <3>3. 0 <= done' /\ done' <= op.range.count
      BY <1>4, <3>2
    <3> QED BY <2>1, <3>1, <3>3 DEF Fits
  <2>4. f' = 3 => pc' \in {"read stop", "write wait", "write stop", "write number", "write status"}
    BY DEF GoesOn
  <2> QED BY <2>1, <2>2, <2>3, <2>4 DEF Counts
<1> QED BY <1>1, <1>5, <1>6, <1>7, ZeroBounds, TypeKept DEF GoesOn

\* The range of the call a step of ff_sd_read or ff_sd_write belongs to.
LEMMA CallTyped ==
    ASSUME TypeInv, pc \in ReadSteps \cup WriteSteps
    PROVE  /\ op \in Ops /\ pc # "idle"
           /\ op.kind = "read" \/ op.kind = "write"
           /\ op.range.sector \in Nat /\ op.range.sector \in Sectors
           /\ op.range.count \in 1 .. NSectors /\ op.range.count \in Nat
           /\ op.range.sector + op.range.count <= NSectors
           /\ f \in 0 .. 3
           /\ f = 3 => pc \in {"read stop", "write wait", "write stop", "write number", "write status"}
           /\ done \in Int
           /\ card.well \in Nat
<1>1. op \in Ops /\ pc # "idle"
  BY DEF TypeInv, TypeOK, ReadSteps, WriteSteps
<1>2. op.kind = "read" \/ op.kind = "write"
  BY DEF TypeInv, CallSteps
<1>3. /\ op.range.sector \in Nat /\ op.range.sector \in Sectors
      /\ op.range.count \in 1 .. NSectors
      /\ op.range.sector + op.range.count <= NSectors
  BY <1>1, <1>2, OpRange
<1>4. op.range.count \in Nat
  BY <1>3, CardAssumption
<1>5. card.well \in Nat
  BY DEF TypeInv, CardStates
<1> QED BY <1>1, <1>2, <1>3, <1>4, <1>5, TypeParts DEF TypeInv, Counts

LEMMA CallCounted ==
    ASSUME TypeInv, Counted
    PROVE  /\ done \in 0 .. op.range.count /\ done \in Nat /\ done <= op.range.count
           /\ done = op.range.count => pc \in {"read stop", "write wait", "write status"}
           /\ Bounded(pc, answer) => card.well <= done
<1>1. pc \in ReadSteps \cup WriteSteps
  BY DEF Counted
<1>2. 0 <= done /\ done <= op.range.count /\ done \in Int /\ op.range.count \in Nat
  BY <1>1, CallTyped DEF TypeInv, Counts
<1>3. done \in 0 .. op.range.count /\ done \in Nat
  BY <1>2
<1> QED BY <1>2, <1>3 DEF TypeInv, Counts

\* A call that is intact after a step of ff_sd_write was intact before it.
LEMMA StillIntact ==
    ASSUME TypeInv, pc \in WriteSteps, Intact', host'.supports_crc = host.supports_crc, spoilt' \in {spoilt, TRUE}
    PROVE  Intact /\ Counted
<1>1. CASE host.supports_crc
  BY <1>1 DEF Intact, Counted
<1>2. CASE ~host.supports_crc
  <2>1. ~spoilt'
    BY <1>2 DEF Intact
  <2>2. ~spoilt
    BY <2>1
  <2> QED BY <2>2 DEF Intact, Counted
<1> QED BY <1>1, <1>2

\* How a command that is answered in order starts a transfer.
LEMMA TransferStarted ==
    ASSUME card \in CardStates, NEW cmd \in Transfers, NEW arg, Token(cmd, arg) = 0
    PROVE  /\ card.power = "ready" /\ Addressed(arg) \in Sectors
           /\ card.mode = Tran
           /\ Executed(cmd, arg).mode = Addressed(arg)
           /\ Executed(cmd, arg).well = 0
           /\ Executed(cmd, arg).power = card.power
           /\ Executed(cmd, arg).crcOn = card.crcOn
<1>1. card.power = "ready" /\ Addressed(arg) \in Sectors /\ card.mode = Tran
  BY DEF Token, Transfers, NoToken, CrcError
<1>2. Executed(cmd, arg) = [card EXCEPT !.mode = Addressed(arg), !.well = 0]
  BY DEF Executed, Transfers
<1>3. 0 \in Nat
  OBVIOUS
<1>4. /\ [card EXCEPT !.mode = Addressed(arg), !.well = 0].mode = Addressed(arg)
      /\ [card EXCEPT !.mode = Addressed(arg), !.well = 0].well = 0
      /\ [card EXCEPT !.mode = Addressed(arg), !.well = 0].power = card.power
      /\ [card EXCEPT !.mode = Addressed(arg), !.well = 0].crcOn = card.crcOn
  BY DEF CardStates
<1> QED BY <1>1, <1>2, <1>4

LEMMA TransferCommands ==
    /\ TransferCommand("READ_BLOCK_SINGLE", "READ_BLOCK_MULTIPLE") \in Transfers
    /\ TransferCommand("WRITE_BLOCK_SINGLE", "WRITE_BLOCK_MULTIPLE") \in Transfers
BY DEF TransferCommand, Transfers

\* The card after a block.
LEMMA BlockPassed ==
    ASSUME TypeInv, pc \in ReadSteps \cup WriteSteps, NEW c \in CardStates, c.mode \in Sectors
    PROVE  /\ AfterBlock(c) \in CardStates
           /\ AfterBlock(c).mode = IF op.range.count = 1 THEN Tran ELSE c.mode + 1
           /\ AfterBlock(c).kind = c.kind /\ AfterBlock(c).block = c.block
           /\ AfterBlock(c).power = c.power /\ AfterBlock(c).crcOn = c.crcOn
           /\ AfterBlock(c).well = c.well
<1> DEFINE place == IF op.range.count = 1 THEN Tran ELSE c.mode + 1
<1>1. AfterBlock(c) = [c EXCEPT !.mode = place]
  BY DEF AfterBlock
<1>2. place \in Places
  BY CardAssumption DEF Places, Sectors
<1> HIDE DEF place
<1>3. /\ [c EXCEPT !.mode = place] \in CardStates
      /\ [c EXCEPT !.mode = place].mode = place
      /\ [c EXCEPT !.mode = place].kind = c.kind /\ [c EXCEPT !.mode = place].block = c.block
      /\ [c EXCEPT !.mode = place].power = c.power /\ [c EXCEPT !.mode = place].crcOn = c.crcOn
      /\ [c EXCEPT !.mode = place].well = c.well
  BY <1>2 DEF CardStates
<1> QED BY <1>1, <1>3 DEF place

LEMMA RepeatTyped ==
    ASSUME TypeInv, NEW cmd, NEW arg, Repeats(cmd, arg),
           pc \notin {"idle", "read", "read bytes", "write", "write bytes", "write wait", "sync"},
           pc \in {"write erase", "write number"} => host.type # "CARD_MMC",
           cmd \notin Transfers \/ pc \in {"read command", "write command"}
    PROVE  TypeInv'
<1>1. /\ pc' = pc /\ op' = op /\ f' = f /\ done' = done /\ host' = host
      /\ cmd \notin Transfers => card'.well = card.well
      /\ spoilt \in BOOLEAN /\ (spoilt => spoilt')
  BY Repeating, TypeParts
<1>2. CallSteps'
  BY <1>1 DEF CallSteps, TypeInv
<1>3. Counted' => Counted
  BY <1>1 DEF Counted, Intact
<1>4. Counts'
  <2>1. answer' = answer
    BY Repeating, TypeParts
  <2>2. pc \in {"read command", "write command"} => ~Bounded(pc, answer)
    BY DEF Bounded
  <2> QED BY <1>1, <1>3, <2>1, <2>2 DEF Counts, TypeInv
<1> QED BY <1>2, <1>4, Repeating, TypeParts, TypeKept DEF TypeInv, TypeOK

LEMMA RetryTyped ==
    ASSUME TypeInv, NEW attempts \in 0 .. 3, NEW step, NEW h \in HostStates, Retry(attempts, step, h),
           \/ pc \in ReadSteps /\ step = "read"
           \/ pc \in WriteSteps /\ step = "write",
           h.supports_crc = host.supports_crc,
           Counted => done # op.range.count,
           try' = 0, answer' \in 0 .. 31, lost' \in 0 .. MaxFaults, spoilt' \in {spoilt, TRUE}, card' \in CardStates
    PROVE  TypeInv'
<1>0. spoilt' \in BOOLEAN
  BY TypeParts
<1>1. CASE attempts < 3
  <2>1. GoesOn(step, Deselected(h))
    <3>1. /\ pc' = step /\ host' = Deselected(h) /\ op' = op /\ done' = done /\ result' = result
          /\ f' = attempts /\ f' \in 0 .. 3 /\ f' # 3
      BY <1>1 DEF Retry
    <3>2. host'.supports_crc = host.supports_crc
      BY <3>1, HostDeselected
    <3>3. ASSUME step \in ReadSteps \/ Intact'
          PROVE  Fits(step)
      <4>1. Counted
        BY <3>2, <3>3, StillIntact DEF Counted, ReadSteps, WriteSteps
      <4>2. done' \in 0 .. op.range.count /\ done' # op.range.count
        BY <3>1, <4>1, CallCounted
      <4> QED BY <4>2 DEF Fits, Bounded
    <3>4. done' \in Int
      BY <3>1, TypeParts
    <3> QED BY <3>1, <3>3, <3>4 DEF GoesOn
  <2>2. step \in ReadSteps \cup WriteSteps /\ (step = "read" => step \in ReadSteps) /\ (step = "write" => step \in WriteSteps)
    BY DEF ReadSteps, WriteSteps
  <2> QED BY <1>0, <2>1, <2>2, HostDeselected, GoesOnTyped
<1>2. CASE ~(attempts < 3)
  BY <1>0, <1>2, ErrorTyped DEF Retry
<1> QED BY <1>1, <1>2

LEMMA ContinueTyped ==
    ASSUME TypeInv, NEW step \in ReadSteps \cup WriteSteps, NEW h \in HostStates, Continue(step, h),
           \/ pc \in ReadSteps /\ step \in ReadSteps
           \/ pc \in WriteSteps /\ step \in WriteSteps,
           h.supports_crc = host.supports_crc,
           f = 3 => step \in {"read stop", "write wait", "write stop", "write number", "write status"},
           Counted => /\ done = op.range.count => step \in {"read stop", "write wait", "write status"}
                      /\ Bounded(step, answer') => card'.well <= done,
           try' = 0, answer' \in 0 .. 31, lost' \in 0 .. MaxFaults, spoilt' \in {spoilt, TRUE}, card' \in CardStates
    PROVE  TypeInv'
<1>0. spoilt' \in BOOLEAN
  BY TypeParts
<1>1. pc' = step /\ host' = h /\ op' = op /\ f' = f /\ done' = done /\ result' = result
  BY DEF Continue, call
<1>2. ASSUME step \in ReadSteps \/ Intact'
      PROVE  Fits(step)
  <2>1. Counted
    BY <1>1, <1>2, StillIntact DEF Counted, ReadSteps, WriteSteps
  <2>2. done' \in 0 .. op.range.count
    BY <1>1, <2>1, CallCounted
  <2> QED BY <1>1, <2>1, <2>2 DEF Fits
<1>3. GoesOn(step, h)
  BY <1>1, <1>2, TypeParts DEF GoesOn
<1> QED BY <1>0, <1>3, GoesOnTyped

LEMMA ReadTyped ==
    ASSUME TypeInv, ReadSelect \/ ReadCommand \/ ReadGood \/ ReadBad \/ ReadStop
    PROVE  TypeInv'
<1> USE TypeParts
<1>1. CASE ReadSelect
  <2>1. pc = "read" /\ pc \in ReadSteps /\ "read command" \in ReadSteps \cup WriteSteps /\ "read command" \in ReadSteps
    BY <1>1 DEF ReadSelect, Select, ReadSteps
  <2>2. try' = 0 /\ answer' \in 0 .. 31 /\ card' \in CardStates /\ lost' \in 0 .. MaxFaults
    BY <1>1, <2>1 DEF ReadSelect, Select, data, faults, TypeInv, Counts
  <2>3. spoilt' \in BOOLEAN /\ spoilt' \in {spoilt, TRUE}
    BY <1>1 DEF ReadSelect, Select, faults
  <2>4. CASE Continue("read command", [host EXCEPT !.selected = TRUE])
    <3>1. [host EXCEPT !.selected = TRUE] \in HostStates /\ [host EXCEPT !.selected = TRUE].supports_crc = host.supports_crc
      BY DEF HostStates
    <3>2. f # 3 /\ (Counted => done # op.range.count)
      BY <2>1, CallTyped, CallCounted
    <3>3. \A step \in {"read command", "write command"} : ~Bounded(step, answer')
      BY DEF Bounded
    <3> QED BY <2>1, <2>2, <2>3, <2>4, <3>1, <3>2, <3>3, ContinueTyped
  <2>5. CASE Return("RES_ERROR", Deselected(host))
    BY <2>2, <2>3, <2>5, HostDeselected, ReturnTyped
  <2> QED BY <1>1, <2>4, <2>5 DEF ReadSelect, Select
<1>2. CASE ReadCommand
  <2>1. pc = "read command" /\ pc \in ReadSteps
    BY <1>2, ReadCommandForm DEF ReadSteps
  <2>2. CASE Repeats(ReadTransfer, Place)
    BY <2>1, <2>2, RepeatTyped
  <2>3. CASE ~Repeats(ReadTransfer, Place)
    <3>1. PICK cmd, arg, token, h :
            /\ Replied(cmd, arg, token, h)
            /\ IF token = 0 THEN Continue("read bytes", h) ELSE ErrorOf(h)
      BY <1>2, <2>3, ReadCommandForm
    <3>2. Settled /\ h \in HostStates /\ h.supports_crc = host.supports_crc
      BY <3>1, Replies
    <3>3. f # 3 /\ (Counted => done # op.range.count) /\ ~Bounded("read bytes", answer')
      BY <2>1, CallTyped, CallCounted DEF Bounded
    <3>4. "read bytes" \in ReadSteps \cup WriteSteps /\ "read bytes" \in ReadSteps
      BY DEF ReadSteps
    <3> QED BY <2>1, <3>1, <3>2, <3>3, <3>4, SettledType, ContinueTyped, ErrorTyped
  <2> QED BY <2>2, <2>3
<1>3. CASE ReadGood
  <2>1. pc = "read bytes" /\ pc \in ReadSteps
    BY <1>3 DEF ReadGood, ReadSteps
  <2>2. try' = 0 /\ answer' \in 0 .. 31 /\ lost' \in 0 .. MaxFaults
    BY <1>3, <2>1 DEF ReadGood, TypeInv, Counts
  <2>3. spoilt' \in BOOLEAN
    BY <1>3 DEF ReadGood
  <2>4. card' \in CardStates
    BY <1>3, <2>1, BlockPassed DEF ReadGood, OnCard
  <2>5. CASE Return("RES_OK", Deselected(host))
    BY <2>2, <2>3, <2>4, <2>5, HostDeselected, ReturnTyped
  <2>6. CASE ~Return("RES_OK", Deselected(host))
    <3>1. /\ done' = done + 1 /\ f' = 0 /\ op' = op /\ result' = result /\ host' = host
          /\ pc' = IF done' = op.range.count THEN "read stop" ELSE pc
      BY <1>3, <2>6 DEF ReadGood
    <3>2. done' \in 0 .. op.range.count /\ done' \in Int
      <4>1. done \in Nat /\ op.range.count \in Nat /\ done \in 0 .. op.range.count /\ done # op.range.count
        BY <2>1, CallTyped, CallCounted DEF Counted
      <4>2. done' = done + 1
        BY <3>1
      <4> QED BY <4>1, <4>2
    <3>3. GoesOn(pc', host)
      <4>1. f' \in 0 .. 3 /\ f' # 3
        BY <3>1, ZeroBounds
      <4>2. Fits(pc')
        BY <2>1, <3>1, <3>2 DEF Fits, Bounded
      <4> QED BY <2>1, <3>1, <3>2, <4>1, <4>2 DEF GoesOn
    <3>4. pc' \in ReadSteps \cup WriteSteps /\ pc' \in ReadSteps
      BY <2>1, <3>1 DEF ReadSteps
    <3> QED BY <2>1, <2>2, <2>3, <2>4, <3>3, <3>4, GoesOnTyped
  <2> QED BY <2>5, <2>6
<1>4. CASE ReadBad
  <2>1. pc = "read bytes" /\ pc \in ReadSteps
    BY <1>4 DEF ReadBad, ReadSteps
  <2>2. try' = 0 /\ answer' \in 0 .. 31
    BY <1>4, <2>1 DEF ReadBad, TypeInv, Counts, data
  <2>3. spoilt' \in BOOLEAN /\ spoilt' \in {spoilt, TRUE}
    BY <1>4 DEF ReadBad
  <2>4. lost' \in 0 .. MaxFaults
    <3>1. lost' = lost \/ (lost < MaxFaults /\ lost' = lost + 1)
      BY <1>4 DEF ReadBad
    <3> QED BY <3>1, CardAssumption
  <2>5. card' \in CardStates
    BY <1>4, <2>1, BlockPassed DEF ReadBad, OnCard
  <2>6. f + 1 \in 0 .. 3 /\ f # 3 /\ done # op.range.count
    <3>1. f \in 0 .. 3 /\ f # 3 /\ done # op.range.count
      BY <2>1, CallTyped, CallCounted DEF Counted
    <3> QED BY <3>1
  <2>7. CASE Retry(f + 1, "read", host)
    BY <2>1, <2>2, <2>3, <2>4, <2>5, <2>6, <2>7, RetryTyped
  <2>8. CASE ~Retry(f + 1, "read", host)
    <3>1. f' = f + 1 /\ pc' = "read stop" /\ op' = op /\ done' = done /\ result' = result /\ host' = host
      BY <1>4, <2>8 DEF ReadBad
    <3>2. GoesOn("read stop", host)
      <4>1. done \in 0 .. op.range.count /\ done \in Int
        BY <2>1, CallTyped, CallCounted DEF Counted
      <4>2. Fits("read stop")
        BY <3>1, <4>1 DEF Fits, Bounded
      <4> QED BY <2>6, <3>1, <4>1, <4>2 DEF GoesOn
    <3>3. "read stop" \in ReadSteps \cup WriteSteps /\ "read stop" \in ReadSteps
      BY DEF ReadSteps
    <3> QED BY <2>1, <2>2, <2>3, <2>4, <2>5, <3>2, <3>3, GoesOnTyped
  <2> QED BY <2>7, <2>8
<1>5. CASE ReadStop
  <2>1. pc = "read stop" /\ pc \in ReadSteps
    BY <1>5, ReadStopForm DEF ReadSteps
  <2>2. CASE Repeats("STOP_TRANSMISSION", 0)
    BY <2>1, <2>2, RepeatTyped DEF Transfers
  <2>3. CASE ~Repeats("STOP_TRANSMISSION", 0)
    <3>1. PICK token, h :
            /\ Replied("STOP_TRANSMISSION", 0, token, h)
            /\ \/ token # 0 /\ ErrorOf(h)
               \/ token = 0 /\ done = op.range.count /\ Return("RES_OK", Deselected(h))
               \/ token = 0 /\ done # op.range.count /\ Retry(f, "read", h)
      BY <1>5, <2>3, ReadStopForm
    <3>2. Settled /\ h \in HostStates /\ h.supports_crc = host.supports_crc
      BY <3>1, Replies
    <3>3. Deselected(h) \in HostStates
      BY <3>2, HostDeselected
    <3>4. CASE ErrorOf(h)
      BY <3>2, <3>4, SettledType, ErrorTyped
    <3>5. CASE Return("RES_OK", Deselected(h))
      BY <3>2, <3>3, <3>5, SettledType, ReturnTyped
    <3>6. CASE done # op.range.count /\ Retry(f, "read", h)
      BY <2>1, <3>2, <3>6, SettledType, RetryTyped
    <3> QED BY <3>1, <3>4, <3>5, <3>6
  <2> QED BY <2>2, <2>3
<1> QED BY <1>1, <1>2, <1>3, <1>4, <1>5

\* The card with a block stored, before it passes on to the next sector.
Put(block) == [card EXCEPT !.well = @ + 1, !.block[card.mode] = block]

\* Arithmetic of sectors and counts.
LEMMA Numbers ==
    /\ \A s, c, d, n \in Nat : s + c <= n /\ d <= c /\ d # c => s + d \in 0 .. (n - 1)
    /\ \A w, d, c \in Nat : w <= d /\ d <= c /\ d # c => w \in 0 .. c /\ w # c
    /\ \A d, c \in Nat : d < c => d # c
    /\ \A n \in 0 .. 3 : n < 3 => n # 3
    /\ \A n \in Nat : n + 1 \in Nat /\ 0 <= n
    /\ \A d, c \in Nat : d \in 0 .. c /\ d # c => d \in 0 .. (c - 1)
    /\ \A i \in Int : i + 1 \in Int /\ (0 <= i => i \in Nat)
OBVIOUS

LEMMA Responses ==
    /\ 31 # 5 /\ 5 # 10 /\ 31 # 10 /\ 0 # 5 /\ 0 # 10 /\ 5 # 12
    /\ \A a \in {0, 5, 31} : a \in 0 .. 31 /\ a # 10
OBVIOUS

LEMMA OneRecord == \A a, b : [for : {a}, version : {b}] = {[for |-> a, version |-> b]}
<1> SUFFICES ASSUME NEW a, NEW b PROVE [for : {a}, version : {b}] = {[for |-> a, version |-> b]}
  OBVIOUS
<1>1. ASSUME NEW x \in [for : {a}, version : {b}] PROVE x = [for |-> a, version |-> b]
  <2>1. x.for = a /\ x.version = b
    BY <1>1
  <2>2. x = [for |-> x.for, version |-> x.version]
    BY <1>1
  <2> QED BY <2>1, <2>2
<1>2. [for |-> a, version |-> b] \in [for : {a}, version : {b}]
  OBVIOUS
<1> QED BY <1>1, <1>2

\* What may be stored, and what is if nothing goes wrong.
LEMMA Sending ==
    ASSUME TypeInv, pc = "write bytes", OnCard
    PROVE  /\ Damaged \subseteq Block /\ Sent \subseteq Damaged
           /\ card.mode = op.range.sector + done /\ Counted =>
                Sent = {[for |-> op.range.sector + done, version |-> op.version]}
<1>1. pc \in WriteSteps /\ pc \in ReadSteps \cup WriteSteps /\ op.kind = "write"
  BY DEF TypeInv, CallSteps, WriteSteps
<1>2. op.version \in Versions
  BY <1>1, CallTyped, OpRange
<1>3. card.mode \in Sectors
  BY DEF OnCard
<1>4. Damaged \subseteq Block /\ Sent \subseteq Damaged
  BY <1>2, <1>3 DEF Damaged, Block, Sent
<1>5. ASSUME card.mode = op.range.sector + done, Counted
      PROVE  Sent = {[for |-> op.range.sector + done, version |-> op.version]}
  <2>1. done \in 0 .. op.range.count /\ done # op.range.count /\ done \in Nat /\ op.range.count \in Nat
    BY <1>1, <1>5, CallTyped, CallCounted
  <2>2. done \in 0 .. (op.range.count - 1)
    BY <2>1, Numbers
  <2>3. Sent = [for : {op.range.sector + done}, version : {op.version}]
    BY <1>5, <2>2 DEF Sent
  <2> QED BY <2>3, OneRecord
<1> QED BY <1>4, <1>5

\* A block written to the card's place leaves a card.
LEMMA BlockStored ==
    ASSUME TypeInv, pc = "write bytes", OnCard, NEW block \in Damaged
    PROVE  /\ Storing(block) \in CardStates
           /\ Storing(block).kind = card.kind /\ Storing(block).well = card.well + 1
           /\ Storing(block).power = card.power /\ Storing(block).crcOn = card.crcOn
           /\ Storing(block).mode = IF op.range.count = 1 THEN Tran ELSE card.mode + 1
           /\ Storing(block).block = [card.block EXCEPT ![card.mode] = block]
<1>1. pc \in ReadSteps \cup WriteSteps
  BY DEF WriteSteps
<1>2. block \in Block
  BY Sending
<1>3. Put(block) = [card EXCEPT !.well = card.well + 1, !.block = [card.block EXCEPT ![card.mode] = block]]
  BY DEF Put
<1>4. card \in CardStates /\ card.mode \in Sectors /\ card.well + 1 \in Nat
  <2>1. card \in CardStates /\ card.well \in Nat
    BY DEF TypeInv, CardStates
  <2> QED BY <2>1, Numbers DEF OnCard
<1> DEFINE blocks == [card.block EXCEPT ![card.mode] = block]
<1>5. blocks \in [Sectors -> Block]
  BY <1>2, <1>4 DEF CardStates
<1> HIDE DEF blocks
<1>6. /\ [card EXCEPT !.well = card.well + 1, !.block = blocks].mode = card.mode
      /\ [card EXCEPT !.well = card.well + 1, !.block = blocks].kind = card.kind
      /\ [card EXCEPT !.well = card.well + 1, !.block = blocks].well = card.well + 1
      /\ [card EXCEPT !.well = card.well + 1, !.block = blocks].power = card.power
      /\ [card EXCEPT !.well = card.well + 1, !.block = blocks].crcOn = card.crcOn
      /\ [card EXCEPT !.well = card.well + 1, !.block = blocks].block = blocks
  BY <1>4 DEF CardStates
<1>7. [card EXCEPT !.well = card.well + 1, !.block = blocks] \in CardStates
  BY <1>4, <1>5 DEF CardStates
<1>8. /\ Put(block) \in CardStates /\ Put(block).mode = card.mode /\ Put(block).mode \in Sectors
      /\ Put(block).kind = card.kind /\ Put(block).well = card.well + 1
      /\ Put(block).power = card.power /\ Put(block).crcOn = card.crcOn /\ Put(block).block = blocks
  BY <1>3, <1>4, <1>6, <1>7 DEF blocks
<1>9. Storing(block) = AfterBlock(Put(block))
  BY DEF Storing, Put
<1> QED BY <1>1, <1>8, <1>9, BlockPassed DEF blocks

\* What comes of a block sent to the card: stored with or without an answer, damaged,
\* refused or not sent, or sent to a card that does not wait for one.
BlockTaken ==
    /\ OnCard
    /\ card'.mode = IF op.range.count = 1 THEN Tran ELSE card.mode + 1
    /\ card'.well = card.well + 1
    /\ \E block \in Damaged :
          /\ card'.block = [card.block EXCEPT ![card.mode] = block]
          /\ block \in Sent \/ (~host.supports_crc /\ spoilt' /\ answer' = 5)
    /\ (answer' = 5 /\ spoilt' = spoilt) \/ spoilt'

BlockNotTaken ==
    /\ InTransfer /\ answer' # 5 /\ spoilt'
    /\ card'.mode \in {card.mode, Tran}
    /\ card'.well = card.well /\ card'.block = card.block

LEMMA BlockWritten ==
    ASSUME TypeInv, pc = "write bytes", WriteBytes
    PROVE  /\ buffer' = buffer /\ try' = 0 /\ lost' = lost
           /\ spoilt' \in BOOLEAN /\ spoilt' \in {spoilt, TRUE}
           /\ answer' \in 0 .. 31 /\ card' \in CardStates
           /\ card'.kind = card.kind /\ card'.power = card.power /\ card'.crcOn = card.crcOn
           /\ \/ BlockTaken
              \/ BlockNotTaken
              \/ ~OnCard /\ answer' = 31 /\ spoilt' = spoilt /\ card' = card
           /\ Repeated(answer') => BlockNotTaken
<1> USE TypeParts
<1>1. 31 # 5 /\ 5 # 10 /\ 31 # 10 /\ 0 # 5
  BY Responses
<1>2. buffer' = buffer /\ try' = try /\ lost' = lost
  BY DEF WriteBytes
<1>3. try = 0
  BY DEF TypeInv, Counts
<1>4. ASSUME OnCard, NEW block \in Damaged, card' = Storing(block),
             (answer' = 5 /\ spoilt' = spoilt) \/ (answer' \in {5, 31} /\ spoilt' = TRUE),
             block \in Sent \/ (~host.supports_crc /\ spoilt' /\ answer' = 5)
      PROVE  /\ spoilt' \in BOOLEAN /\ spoilt' \in {spoilt, TRUE} /\ answer' \in 0 .. 31 /\ card' \in CardStates
             /\ card'.kind = card.kind /\ card'.power = card.power /\ card'.crcOn = card.crcOn
             /\ BlockTaken /\ ~Repeated(answer')
  <2>1. /\ card' \in CardStates
        /\ card'.kind = card.kind /\ card'.well = card.well + 1
        /\ card'.power = card.power /\ card'.crcOn = card.crcOn
        /\ card'.mode = IF op.range.count = 1 THEN Tran ELSE card.mode + 1
        /\ card'.block = [card.block EXCEPT ![card.mode] = block]
    BY <1>4, BlockStored
  <2>2. spoilt' \in BOOLEAN /\ spoilt' \in {spoilt, TRUE} /\ answer' \in 0 .. 31 /\ ~Repeated(answer')
    BY <1>1, <1>4, ZeroBounds DEF Repeated
  <2>3. BlockTaken
    BY <1>4, <2>1 DEF BlockTaken
  <2> QED BY <2>1, <2>2, <2>3
<1>5. CASE OnCard /\ (\E block \in Sent : card' = Storing(block))
           /\ ((answer' = 5 /\ UNCHANGED spoilt) \/ (answer' = 31 /\ spoilt' = TRUE))
  <2>1. PICK block \in Sent : card' = Storing(block)
    BY <1>5
  <2>2. block \in Damaged
    BY <1>5, Sending
  <2> QED BY <1>2, <1>3, <1>4, <1>5, <2>1, <2>2
<1>6. CASE OnCard /\ ~host.supports_crc /\ (\E block \in Damaged : card' = Storing(block)) /\ answer' = 5 /\ spoilt' = TRUE
  <2>1. PICK block \in Damaged : card' = Storing(block)
    BY <1>6
  <2> QED BY <1>2, <1>3, <1>4, <1>6, <2>1
<1>7. CASE /\ InTransfer /\ answer' \in Refusals /\ spoilt' = TRUE
           /\ card' = IF op.range.count = 1 THEN [card EXCEPT !.mode = Tran] ELSE card
  <2>1. answer' \in 0 .. 31 /\ answer' # 5
    BY <1>7, CardAssumption
  <2>2. /\ card' \in CardStates /\ card'.kind = card.kind /\ card'.block = card.block
        /\ card'.power = card.power /\ card'.crcOn = card.crcOn /\ card'.well = card.well
        /\ card'.mode \in {card.mode, Tran}
    BY <1>7 DEF CardStates, Places
  <2> QED BY <1>2, <1>3, <1>7, <2>1, <2>2 DEF BlockNotTaken
<1>8. CASE InTransfer /\ answer' \in {0, 31} /\ spoilt' = TRUE /\ UNCHANGED card
  <2>1. answer' \in 0 .. 31 /\ answer' # 5
    BY <1>1, <1>8, Responses
  <2> QED BY <1>2, <1>3, <1>8, <2>1 DEF BlockNotTaken
<1>9. CASE ~OnCard /\ answer' = 31 /\ UNCHANGED <<card, spoilt>>
  BY <1>1, <1>2, <1>3, <1>9, ZeroBounds DEF Repeated
<1> QED BY <1>5, <1>6, <1>7, <1>8, <1>9 DEF WriteBytes

LEMMA Answered ==
    ~(Repeated(answer') /\ Refused(answer'))
BY DEF Repeated, Refused

\* A transfer is resumed: where it goes on is known if the call is intact.
LEMMA ResumeTyped ==
    ASSUME TypeInv, pc = "write number", NEW written \in Int, NEW h \in HostStates, Resume(written, h),
           h.supports_crc = host.supports_crc,
           Intact /\ Intact' => 0 <= written /\ written <= done,
           try' = 0, answer' \in 0 .. 31, lost' \in 0 .. MaxFaults, spoilt' \in {spoilt, TRUE}, card' \in CardStates
    PROVE  TypeInv'
<1>0. spoilt' \in BOOLEAN
  BY TypeParts
<1>1. pc \in WriteSteps /\ pc \in ReadSteps \cup WriteSteps
  BY DEF WriteSteps
<1>2. CASE f < 3
  <2>1. pc' = "write erase" /\ done' = written /\ host' = Deselected(h) /\ op' = op /\ f' = f /\ result' = result
    BY <1>2 DEF Resume
  <2>2. f' \in 0 .. 3 /\ f' # 3
    <3>1. f' = f /\ f \in 0 .. 3
      BY <2>1, TypeParts
    <3> QED BY <1>2, <3>1, Numbers
  <2>3. host'.supports_crc = host.supports_crc
    BY <2>1, HostDeselected
  <2>4. ASSUME Intact'
        PROVE  Fits("write erase")
    <3>1. Intact /\ Counted
      BY <1>1, <2>3, <2>4, StillIntact
    <3>2. done \in Nat /\ done <= op.range.count /\ done # op.range.count /\ op.range.count \in Nat
      BY <1>1, <3>1, CallTyped, CallCounted
    <3>3. 0 <= written /\ written <= done
      BY <2>4, <3>1
    <3>4. written \in Nat
      BY <3>3, Numbers
    <3>5. written \in 0 .. op.range.count /\ written # op.range.count
      BY <3>2, <3>3, <3>4, Numbers
    <3> QED BY <2>1, <3>5 DEF Fits, Bounded
  <2>5. "write erase" \in WriteSteps /\ "write erase" \in ReadSteps \cup WriteSteps /\ "write erase" \notin ReadSteps
    BY DEF WriteSteps, ReadSteps
  <2>6. GoesOn("write erase", Deselected(h))
    BY <2>1, <2>2, <2>4, <2>5 DEF GoesOn
  <2> QED BY <1>0, <1>1, <2>5, <2>6, HostDeselected, GoesOnTyped
<1>3. CASE ~(f < 3)
  BY <1>0, <1>3, ErrorTyped DEF Resume
<1> QED BY <1>2, <1>3

LEMMA WriteTyped ==
    ASSUME TypeInv,
           \/ WriteErase \/ WriteSelect \/ WriteCommand \/ WriteSingle \/ WriteMultiple
           \/ WriteWait \/ WriteStop \/ WriteNumber \/ WriteStatus
    PROVE  TypeInv'
<1> USE TypeParts
<1>1. CASE WriteErase
  <2>1. pc = "write erase" /\ pc \in WriteSteps /\ pc \in ReadSteps \cup WriteSteps
    BY <1>1, WriteEraseForm DEF WriteSteps
  <2>2. f # 3 /\ (Counted => done # op.range.count)
    BY <2>1, CallTyped, CallCounted
  <2>3. "write" \in ReadSteps \cup WriteSteps /\ "write" \in WriteSteps /\ ~Bounded("write", answer')
    BY DEF WriteSteps, Bounded
  <2>4. CASE host.type # "CARD_MMC" /\ Repeats("SET_WR_BLK_ERASE_COUNT", 0)
    BY <2>1, <2>4, RepeatTyped DEF Transfers
  <2>5. CASE host.type = "CARD_MMC" /\ Continue("write", host) /\ UNCHANGED <<data, try, card, faults>>
    <3>1. answer' = answer /\ try' = try /\ card' = card /\ lost' = lost /\ spoilt' = spoilt
      BY <2>5 DEF data, faults
    <3>2. try = 0
      BY <2>1, <2>5 DEF TypeInv, Counts
    <3> QED BY <2>1, <2>2, <2>3, <2>5, <3>1, <3>2, ContinueTyped
  <2>6. CASE \E token, h :
            /\ Transacted("SET_WR_BLK_ERASE_COUNT", 0, token, h)
            /\ IF token = 0 THEN Continue("write", h) ELSE ErrorOf(h)
    <3>1. PICK token, h :
            /\ Transacted("SET_WR_BLK_ERASE_COUNT", 0, token, h)
            /\ IF token = 0 THEN Continue("write", h) ELSE ErrorOf(h)
      BY <2>6
    <3>2. Settled /\ h \in HostStates /\ h.supports_crc = host.supports_crc
      BY <3>1, Transactions
    <3> QED BY <2>1, <2>2, <2>3, <3>1, <3>2, SettledType, ContinueTyped, ErrorTyped
  <2> QED BY <1>1, <2>4, <2>5, <2>6, WriteEraseForm
<1>2. CASE WriteSelect
  <2>1. /\ pc = "write" /\ pc \in WriteSteps /\ pc \in ReadSteps \cup WriteSteps
        /\ "write command" \in ReadSteps \cup WriteSteps /\ "write command" \in WriteSteps
    BY <1>2 DEF WriteSelect, Select, WriteSteps
  <2>2. try' = 0 /\ answer' \in 0 .. 31 /\ card' \in CardStates /\ lost' \in 0 .. MaxFaults
    BY <1>2, <2>1 DEF WriteSelect, Select, data, faults, TypeInv, Counts
  <2>3. spoilt' \in BOOLEAN /\ spoilt' \in {spoilt, TRUE}
    BY <1>2 DEF WriteSelect, Select, faults
  <2>4. CASE Continue("write command", [host EXCEPT !.selected = TRUE])
    <3>1. [host EXCEPT !.selected = TRUE] \in HostStates /\ [host EXCEPT !.selected = TRUE].supports_crc = host.supports_crc
      BY DEF HostStates
    <3>2. f # 3 /\ (Counted => done # op.range.count)
      BY <2>1, CallTyped, CallCounted
    <3>3. ~Bounded("write command", answer')
      BY DEF Bounded
    <3> QED BY <2>1, <2>2, <2>3, <2>4, <3>1, <3>2, <3>3, ContinueTyped
  <2>5. CASE Return("RES_ERROR", Deselected(host))
    BY <2>2, <2>3, <2>5, HostDeselected, ReturnTyped
  <2> QED BY <1>2, <2>4, <2>5 DEF WriteSelect, Select
<1>3. CASE WriteCommand
  <2>1. pc = "write command" /\ pc \in WriteSteps /\ pc \in ReadSteps \cup WriteSteps
    BY <1>3, WriteCommandForm DEF WriteSteps
  <2>2. CASE Repeats(WriteTransfer, Place)
    BY <2>1, <2>2, RepeatTyped
  <2>3. CASE ~Repeats(WriteTransfer, Place)
    <3>1. PICK cmd, arg, token, h :
            /\ cmd = WriteTransfer
            /\ Replied(cmd, arg, token, h)
            /\ IF token = 0 THEN Continue("write bytes", h) ELSE ErrorOf(h)
      BY <1>3, <2>3, WriteCommandForm
    <3>2. Settled /\ h \in HostStates /\ h.supports_crc = host.supports_crc
      BY <3>1, Replies
    <3>3. f # 3 /\ (Counted => done # op.range.count /\ done \in Nat)
      BY <2>1, CallTyped, CallCounted
    <3>4. "write bytes" \in ReadSteps \cup WriteSteps /\ "write bytes" \in WriteSteps
      BY DEF WriteSteps
    <3>5. token = 0 => card'.well = 0
      <4>1. cmd \in Transfers
        BY <3>1, TransferCommands DEF WriteTransfer
      <4>2. Outcome(cmd, arg, token)
        BY <3>1, Replies
      <4>3. 0 \notin {NoToken, CrcError}
        BY DEF NoToken, CrcError
      <4>4. token = 0 => (card' = Executed(cmd, arg) /\ Token(cmd, arg) = 0) \/ Misread(cmd)
        BY <4>2, <4>3 DEF Outcome
      <4>5. token = 0 /\ card' = Executed(cmd, arg) /\ Token(cmd, arg) = 0 => card'.well = 0
        BY <4>1, TransferStarted
      <4> QED BY <4>4, <4>5, Misreading
    <3>6. token = 0 /\ Counted => card'.well <= done
      BY <3>3, <3>5, Numbers
    <3> QED BY <2>1, <3>1, <3>2, <3>3, <3>4, <3>6, SettledType, ContinueTyped, ErrorTyped
  <2> QED BY <2>2, <2>3
<1>4. CASE WriteSingle
  <2>1. pc = "write bytes" /\ pc \in WriteSteps /\ pc \in ReadSteps \cup WriteSteps /\ op.range.count = 1
    BY <1>4 DEF WriteSingle, WriteSteps
  <2>2. /\ try' = 0 /\ answer' \in 0 .. 31 /\ card' \in CardStates /\ lost' \in 0 .. MaxFaults
        /\ spoilt' \in BOOLEAN /\ spoilt' \in {spoilt, TRUE}
    BY <1>4, <2>1, BlockWritten DEF WriteSingle
  <2>3. f \in 0 .. 3 /\ f # 3 /\ (Counted => done # op.range.count)
    BY <2>1, CallTyped, CallCounted
  <2>4. CASE Repeated(answer')
    <3>1. Retry(f + 1, "write", host)
      BY <1>4, <2>4, Answered DEF WriteSingle
    <3>2. f + 1 \in 0 .. 3
      BY <2>3
    <3> QED BY <2>1, <2>2, <2>3, <3>1, <3>2, RetryTyped
  <2>5. CASE Refused(answer')
    <3>1. ErrorOf(host)
      BY <1>4, <2>5, Answered DEF WriteSingle
    <3> QED BY <2>2, <3>1, ErrorTyped
  <2>6. CASE ~Repeated(answer') /\ ~Refused(answer')
    <3>1. Continue("write status", Deselected(host))
      BY <1>4, <2>6 DEF WriteSingle
    <3>2. "write status" \in ReadSteps \cup WriteSteps /\ "write status" \in WriteSteps /\ ~Bounded("write status", answer')
      BY DEF WriteSteps, Bounded
    <3> QED BY <2>1, <2>2, <2>3, <3>1, <3>2, HostDeselected, ContinueTyped
  <2> QED BY <2>4, <2>5, <2>6
<1>5. CASE WriteMultiple
  <2>1. pc = "write bytes" /\ pc \in WriteSteps /\ pc \in ReadSteps \cup WriteSteps /\ WriteBytes
    BY <1>5 DEF WriteMultiple, WriteSteps
  <2>2. /\ try' = 0 /\ answer' \in 0 .. 31 /\ card' \in CardStates /\ lost' \in 0 .. MaxFaults
        /\ spoilt' \in BOOLEAN /\ spoilt' \in {spoilt, TRUE}
    BY <2>1, BlockWritten
  <2>3. f \in 0 .. 3 /\ f # 3 /\ done \in Int /\ op.range.count \in Nat /\ card.well \in Nat
    BY <2>1, CallTyped
  <2>4. op' = op /\ result' = result /\ host' = host
    BY <1>5 DEF WriteMultiple
  <2>5. "write wait" \in WriteSteps /\ "write wait" \notin ReadSteps /\ "write bytes" \notin ReadSteps
    BY DEF WriteSteps, ReadSteps
  <2>6. ASSUME Intact'
        PROVE  done \in Nat /\ done \in 0 .. op.range.count /\ done # op.range.count /\ card.well <= done
    <3>1. Counted
      BY <2>1, <2>2, <2>4, <2>6, StillIntact
    <3>2. Bounded(pc, answer)
      BY <2>1 DEF Bounded
    <3> QED BY <2>1, <3>1, <3>2, CallCounted
  <2>7. CASE Accepted(answer')
    <3>1. done' = done + 1 /\ f' = 0 /\ pc' = IF done' = op.range.count THEN "write wait" ELSE pc
      BY <1>5, <2>7 DEF WriteMultiple
    <3>2. ASSUME Intact'
          PROVE  Fits(pc')
      <4>1. card'.well = card.well + 1 \/ card'.well = card.well
        BY <2>1, BlockWritten DEF BlockTaken, BlockNotTaken
      <4>2. card'.well <= done + 1
        BY <2>3, <2>6, <3>2, <4>1
      <4>3. done + 1 \in 0 .. op.range.count
        BY <2>3, <2>6, <3>2
      <4> QED BY <3>1, <4>2, <4>3 DEF Fits
    <3>3. done' \in Int /\ f' \in 0 .. 3 /\ f' # 3
      BY <2>3, <3>1, Numbers, ZeroBounds
    <3>4. pc' \in WriteSteps /\ pc' \notin ReadSteps
      BY <2>1, <2>5, <3>1
    <3>5. GoesOn(pc', host)
      BY <2>4, <3>2, <3>3, <3>4 DEF GoesOn
    <3> QED BY <2>1, <2>2, <3>4, <3>5, GoesOnTyped
  <2>8. CASE ~Accepted(answer')
    <3>1. done' = done /\ f' = f + 1 /\ pc' = "write wait"
      BY <1>5, <2>8 DEF WriteMultiple
    <3>2. ASSUME Intact'
          PROVE  Fits("write wait")
      <4>1. Repeated(answer') => card'.well = card.well
        BY <2>1, BlockWritten DEF BlockNotTaken
      <4>2. Bounded("write wait", answer') => Repeated(answer')
        BY DEF Bounded
      <4> QED BY <2>6, <3>1, <3>2, <4>1, <4>2 DEF Fits
    <3>3. f + 1 \in 0 .. 3
      BY <2>3
    <3>4. GoesOn("write wait", host)
      BY <2>3, <2>4, <2>5, <3>1, <3>2, <3>3 DEF GoesOn
    <3> QED BY <2>1, <2>2, <2>5, <3>4, GoesOnTyped
  <2> QED BY <2>7, <2>8
<1>6. CASE WriteWait
  <2>1. pc = "write wait" /\ pc \in WriteSteps /\ pc \in ReadSteps \cup WriteSteps
    BY <1>6 DEF WriteWait, WriteSteps
  <2>2. try' = 0 /\ answer' = answer /\ answer' \in 0 .. 31 /\ lost' \in 0 .. MaxFaults
    BY <1>6, <2>1 DEF WriteWait, data, TypeInv, Counts
  <2>3. spoilt' \in BOOLEAN /\ spoilt' \in {spoilt, TRUE}
    BY <1>6 DEF WriteWait
  <2>4. card' \in CardStates
    <3>1. [card EXCEPT !.mode = Tran] \in CardStates
      BY DEF CardStates, Places
    <3> QED BY <1>6, <3>1 DEF WriteWait
  <2>5. CASE done = op.range.count /\ Continue("write status", Deselected(host))
    <3>1. "write status" \in ReadSteps \cup WriteSteps /\ "write status" \in WriteSteps /\ ~Bounded("write status", answer')
      BY DEF WriteSteps, Bounded
    <3> QED BY <2>1, <2>2, <2>3, <2>4, <2>5, <3>1, HostDeselected, ContinueTyped
  <2>6. CASE done # op.range.count /\ Continue("write stop", host) /\ UNCHANGED <<card, spoilt>>
    <3>1. "write stop" \in ReadSteps \cup WriteSteps /\ "write stop" \in WriteSteps
      BY DEF WriteSteps
    <3>2. Bounded("write stop", answer') => Bounded(pc, answer)
      BY <2>1, <2>2 DEF Bounded
    <3>3. Counted /\ Bounded("write stop", answer') => card'.well <= done
      BY <2>6, <3>2, CallCounted
    <3> QED BY <2>1, <2>2, <2>3, <2>4, <2>6, <3>1, <3>3, ContinueTyped
  <2>7. CASE ErrorOf(host)
    BY <2>2, <2>3, <2>4, <2>7, ErrorTyped
  <2> QED BY <1>6, <2>5, <2>6, <2>7 DEF WriteWait
<1>7. CASE WriteStop
  <2>1. pc = "write stop" /\ pc \in WriteSteps /\ pc \in ReadSteps \cup WriteSteps
    BY <1>7, WriteStopForm DEF WriteSteps
  <2>2. CASE Repeats("STOP_TRANSMISSION", 0)
    BY <2>1, <2>2, RepeatTyped DEF Transfers
  <2>3. CASE ~Repeats("STOP_TRANSMISSION", 0)
    <3>1. PICK token, h :
            /\ Replied("STOP_TRANSMISSION", 0, token, h)
            /\ IF token = 0 /\ Repeated(answer)
               THEN Continue("write number", Deselected(h)) ELSE ErrorOf(h)
      BY <1>7, <2>3, WriteStopForm
    <3>2. Settled /\ h \in HostStates /\ h.supports_crc = host.supports_crc
      BY <3>1, Replies
    <3>3. Deselected(h) \in HostStates /\ Deselected(h).supports_crc = host.supports_crc
      BY <3>2, HostDeselected
    <3>4. "write number" \in ReadSteps \cup WriteSteps /\ "write number" \in WriteSteps
      BY DEF WriteSteps
    <3>5. card'.well = card.well
      <4>1. Outcome("STOP_TRANSMISSION", 0, token) /\ "STOP_TRANSMISSION" \notin Transfers
        BY <3>1, Replies DEF Transfers
      <4>2. card' = card \/ card' = Executed("STOP_TRANSMISSION", 0)
        BY <4>1 DEF Outcome, Misread
      <4> QED BY <4>1, <4>2, Execution
    <3>6. Counted => done # op.range.count /\ (Repeated(answer) => card.well <= done)
      BY <2>1, CallCounted DEF Bounded
    <3> QED BY <2>1, <3>1, <3>2, <3>3, <3>4, <3>5, <3>6, SettledType, ContinueTyped, ErrorTyped
  <2> QED BY <2>2, <2>3
<1>8. CASE WriteNumber
  <2>1. pc = "write number" /\ pc \in WriteSteps /\ pc \in ReadSteps \cup WriteSteps
    BY <1>8, WriteNumberForm DEF WriteSteps
  <2>2. CASE host.type # "CARD_MMC" /\ Repeats("SEND_NUM_WR_BLOCKS", 0)
    BY <2>1, <2>2, RepeatTyped DEF Transfers
  <2>3. Intact => 0 <= done /\ card.well <= done
    <3>1. Intact => Counted
      BY <2>1 DEF Counted
    <3>2. Bounded(pc, answer)
      BY <2>1 DEF Bounded
    <3> QED BY <3>1, <3>2, CallCounted, Numbers
  <2>4. CASE host.type = "CARD_MMC" /\ Resume(0, host) /\ UNCHANGED <<data, try, card, faults>>
    <3>1. answer' = answer /\ try' = try /\ card' = card /\ lost' = lost /\ spoilt' = spoilt
      BY <2>4 DEF data, faults
    <3>2. try = 0
      BY <2>1, <2>4 DEF TypeInv, Counts
    <3>3. 0 \in Int /\ 0 <= 0
      OBVIOUS
    <3> QED BY <2>1, <2>3, <2>4, <3>1, <3>2, <3>3, ResumeTyped
  <2>5. CASE \E token, h : /\ Transacted("SEND_NUM_WR_BLOCKS", 0, token, h)
                           /\ \E written \in {0, card.well} : Resume(written, h)
    <3>1. PICK token, h : /\ Transacted("SEND_NUM_WR_BLOCKS", 0, token, h)
                          /\ \E written \in {0, card.well} : Resume(written, h)
      BY <2>5
    <3>2. Settled /\ h \in HostStates /\ h.supports_crc = host.supports_crc
      BY <3>1, Transactions
    <3>3. PICK written \in {0, card.well} : Resume(written, h)
      BY <3>1
    <3>4. card.well \in Nat
      BY <2>1, CallTyped
    <3>5. written \in Int /\ 0 <= written /\ (Intact => written <= done)
      BY <2>3, <3>3, <3>4
    <3> QED BY <2>1, <3>2, <3>3, <3>5, SettledType, ResumeTyped
  <2>6. CASE Miscounted
    <3>1. ~host.supports_crc /\ try' = 0 /\ spoilt' = TRUE /\ answer' = answer /\ card' = card /\ lost' = lost
      BY <2>6 DEF Miscounted, data
    <3>2. PICK written \in (- NSectors) .. NSectors : Resume(written, host)
      BY <2>6 DEF Miscounted
    <3>3. written \in Int
      BY <3>2, CardAssumption
    <3>4. host'.supports_crc = host.supports_crc
      BY <3>2, HostDeselected DEF Resume, ErrorOf, Return
    <3>5. ~Intact'
      BY <3>1, <3>4 DEF Intact
    <3> QED BY <2>1, <3>1, <3>2, <3>3, <3>5, ResumeTyped
  <2> QED BY <1>8, <2>2, <2>4, <2>5, <2>6, WriteNumberForm
<1>9. CASE WriteStatus
  <2>1. pc = "write status" /\ pc \in WriteSteps
    BY <1>9, WriteStatusForm DEF WriteSteps
  <2>2. CASE Repeats("SEND_STATUS", 0)
    BY <2>1, <2>2, RepeatTyped DEF Transfers
  <2>3. CASE \E token, h : /\ Transacted("SEND_STATUS", 0, token, h)
                           /\ IF token = 0 THEN Return("RES_OK", h) ELSE ErrorOf(h)
    <3>1. PICK token, h : /\ Transacted("SEND_STATUS", 0, token, h)
                          /\ IF token = 0 THEN Return("RES_OK", h) ELSE ErrorOf(h)
      BY <2>3
    <3>2. Settled /\ h \in HostStates
      BY <3>1, Transactions
    <3> QED BY <3>1, <3>2, SettledType, ReturnTyped, ErrorTyped
  <2>4. CASE WriteError
    <3>1. ErrorOf(host) /\ try' = 0 /\ spoilt' = TRUE /\ answer' = answer /\ card' = card /\ lost' = lost
      BY <2>4 DEF WriteError, data
    <3> QED BY <3>1, ErrorTyped
  <2> QED BY <1>9, <2>2, <2>3, <2>4, WriteStatusForm
<1> QED BY <1>1, <1>2, <1>3, <1>4, <1>5, <1>6, <1>7, <1>8, <1>9

\* A card that was just put in.
LEMMA NewCardTyped ==
    ASSUME NEW kind \in Kinds, NEW version \in Versions
    PROVE  /\ NewCard(kind, version) \in CardStates
           /\ NewCard(kind, version).power = "off" /\ NewCard(kind, version).mode = Tran
           /\ ~NewCard(kind, version).crcOn /\ NewCard(kind, version).well = 0
BY DEF NewCard, CardStates, Places, Block, Tran

LEMMA OtherTyped ==
    ASSUME TypeInv, ff_sd_status \/ ff_sd_ioctl_Sync \/ EndBegin
    PROVE  TypeInv'
<1> USE TypeParts
<1>1. CASE ff_sd_status
  <2>1. CASE Repeats("SEND_STATUS", 0)
    BY <1>1, <2>1, OtherForms, RepeatTyped DEF Transfers
  <2>2. CASE ~Repeats("SEND_STATUS", 0)
    <3>1. PICK token, h : /\ Transacted("SEND_STATUS", 0, token, h)
                          /\ Return(IF token # 0 \/ h.noinit THEN "STA_NOINIT" ELSE "RES_OK", h)
      BY <1>1, <2>2, OtherForms
    <3>2. Settled /\ h \in HostStates
      BY <3>1, Transactions
    <3> QED BY <3>1, <3>2, SettledType, ReturnTyped
  <2> QED BY <2>1, <2>2
<1>2. CASE ff_sd_ioctl_Sync
  <2>1. try' = 0 /\ answer' \in 0 .. 31 /\ lost' \in 0 .. MaxFaults /\ card' \in CardStates
    BY <1>2 DEF ff_sd_ioctl_Sync, TypeInv, Counts, data
  <2>2. spoilt' \in BOOLEAN
    BY <1>2 DEF ff_sd_ioctl_Sync
  <2>3. Deselected(host) \in HostStates
    BY HostDeselected
  <2> QED BY <1>2, <2>1, <2>2, <2>3, ReturnTyped DEF ff_sd_ioctl_Sync
<1>3. CASE EndBegin
  <2>1. CASE Repeats("GO_IDLE_STATE", 0)
    BY <1>3, <2>1, OtherForms, RepeatTyped DEF Transfers
  <2>2. CASE ~Repeats("GO_IDLE_STATE", 0)
    <3>1. PICK token, h : Transacted("GO_IDLE_STATE", 0, token, h) /\ Return("none", NewHost)
      BY <1>3, <2>2, OtherForms
    <3>2. Settled
      BY <3>1, Transactions
    <3>3. NewHost \in HostStates
      BY DEF NewHost, HostStates
    <3> QED BY <3>1, <3>2, <3>3, SettledType, ReturnTyped
  <2> QED BY <2>1, <2>2
<1> QED BY <1>1, <1>2, <1>3

\* What a call begins with.
Calls == {<<"init", "init">>, <<"read", "read">>, <<"write", "write">>, <<"write", "write erase">>,
          <<"status", "status">>, <<"sync", "sync">>, <<"end", "end">>}

\* What a call begins with.
LEMMA Calling ==
    ASSUME TypeInv, Called
    PROVE  /\ pc = "idle" /\ op' \in Ops /\ <<op'.kind, pc'>> \in Calls
           /\ op'.kind = "init" => host.noinit /\ op'.able = (host.supports_crc \/ ~card.kind.crc)
           /\ op'.kind \in {"read", "write"} => ~host.noinit /\ op'.able = Able
           /\ op'.kind = "read" => /\ op'.before = card.block
                                   /\ buffer' = [k \in 1 .. op'.range.count |-> Corrupt]
           /\ result' = "none" /\ answer' = 5 /\ lost' = 0 /\ spoilt' = FALSE
           /\ f' = 0 /\ done' = 0 /\ try' = 0
           /\ host' = host /\ card' = card
<1> USE TypeParts
<1>0. pc = "idle"
  BY DEF Called
<1>1. f = 0 /\ done = 0 /\ try = 0
  BY DEF Called, TypeInv, Counts, ReadSteps, WriteSteps
<1>2. ASSUME NEW o, NEW step, Begin(o, step)
      PROVE  /\ op' = o /\ pc' = step /\ result' = "none" /\ answer' = 5 /\ lost' = 0 /\ spoilt' = FALSE
             /\ f' = 0 /\ done' = 0 /\ try' = 0 /\ host' = host /\ card' = card
             /\ buffer' = IF o.kind = "read" THEN [k \in 1 .. o.range.count |-> Corrupt] ELSE <<>>
  BY <1>1, <1>2 DEF Begin
<1>3. card.block \in [Sectors -> Block] /\ card.kind \in CardKinds
  BY CardAssumption DEF CardStates
<1>4. Able \in BOOLEAN /\ (host.supports_crc \/ ~card.kind.crc) \in BOOLEAN
  BY DEF Able
<1>5. CASE /\ host.noinit
           /\ Begin([kind |-> "init", able |-> host.supports_crc \/ ~card.kind.crc], "init")
  <2>1. [kind |-> "init", able |-> host.supports_crc \/ ~card.kind.crc] \in Ops
    BY <1>4 DEF Ops
  <2>2. /\ op' = [kind |-> "init", able |-> host.supports_crc \/ ~card.kind.crc] /\ pc' = "init"
        /\ result' = "none" /\ answer' = 5 /\ lost' = 0 /\ spoilt' = FALSE
        /\ f' = 0 /\ done' = 0 /\ try' = 0 /\ host' = host /\ card' = card
    BY <1>2, <1>5
  <2>3. op'.kind = "init" /\ op'.able = (host.supports_crc \/ ~card.kind.crc)
    BY <2>2
  <2>4. <<op'.kind, pc'>> \in Calls
    BY <2>2, <2>3 DEF Calls
  <2> QED BY <1>0, <1>5, <2>1, <2>2, <2>3, <2>4
<1>6. CASE /\ ~host.noinit
           /\ \E r \in Ranges : Begin([kind |-> "read", range |-> r, able |-> Able, before |-> card.block], "read")
  <2>1. PICK r \in Ranges : Begin([kind |-> "read", range |-> r, able |-> Able, before |-> card.block], "read")
    BY <1>6
  <2>2. [kind |-> "read", range |-> r, able |-> Able, before |-> card.block] \in Ops
    BY <1>3, <1>4 DEF Ops
  <2> DEFINE o == [kind |-> "read", range |-> r, able |-> Able, before |-> card.block]
  <2>3. o.kind = "read" /\ o.able = Able /\ o.before = card.block /\ o.range = r
    OBVIOUS
  <2> HIDE DEF o
  <2>4. /\ op' = o /\ pc' = "read"
        /\ result' = "none" /\ answer' = 5 /\ lost' = 0 /\ spoilt' = FALSE
        /\ f' = 0 /\ done' = 0 /\ try' = 0 /\ host' = host /\ card' = card
        /\ buffer' = [k \in 1 .. o.range.count |-> Corrupt]
    BY <1>2, <2>1, <2>3 DEF o
  <2>5. <<op'.kind, pc'>> \in Calls
    BY <2>3, <2>4 DEF Calls
  <2> QED BY <1>0, <1>6, <2>2, <2>3, <2>4, <2>5 DEF o
<1>7. CASE /\ ~host.noinit
           /\ \E r \in Ranges, version \in Versions :
                Begin([kind |-> "write", range |-> r, able |-> Able, version |-> version],
                      IF r.count = 1 THEN "write" ELSE "write erase")
  <2>1. PICK r \in Ranges, version \in Versions :
                Begin([kind |-> "write", range |-> r, able |-> Able, version |-> version],
                      IF r.count = 1 THEN "write" ELSE "write erase")
    BY <1>7
  <2>2. [kind |-> "write", range |-> r, able |-> Able, version |-> version] \in Ops
    BY <1>4 DEF Ops
  <2> DEFINE o == [kind |-> "write", range |-> r, able |-> Able, version |-> version]
             step == IF r.count = 1 THEN "write" ELSE "write erase"
  <2>3. o.kind = "write" /\ o.able = Able /\ step \in {"write", "write erase"} /\ Begin(o, step)
    BY <2>1
  <2> HIDE DEF o, step
  <2>4. /\ op' = o /\ pc' = step
        /\ result' = "none" /\ answer' = 5 /\ lost' = 0 /\ spoilt' = FALSE
        /\ f' = 0 /\ done' = 0 /\ try' = 0 /\ host' = host /\ card' = card
    BY <1>2, <2>3
  <2>5. <<op'.kind, pc'>> \in Calls
    BY <2>3, <2>4 DEF Calls
  <2>6. op'.kind = "write" /\ op'.able = Able /\ op' \in Ops
    BY <2>2, <2>3, <2>4 DEF o
  <2> QED BY <1>0, <1>7, <2>4, <2>5, <2>6
<1>8. CASE \E kind \in {"status", "sync", "end"} : Begin([kind |-> kind], kind)
  <2>1. PICK kind \in {"status", "sync", "end"} : Begin([kind |-> kind], kind)
    BY <1>8
  <2>2. [kind |-> kind] \in Ops
    BY DEF Ops
  <2>3. /\ op' = [kind |-> kind] /\ pc' = kind
        /\ result' = "none" /\ answer' = 5 /\ lost' = 0 /\ spoilt' = FALSE
        /\ f' = 0 /\ done' = 0 /\ try' = 0 /\ host' = host /\ card' = card
    BY <1>2, <2>1
  <2>4. op'.kind = kind
    BY <2>3
  <2>5. <<op'.kind, pc'>> \in Calls /\ op'.kind \notin {"init", "read", "write"}
    BY <2>3, <2>4 DEF Calls
  <2> QED BY <1>0, <2>2, <2>3, <2>5
<1> QED BY <1>5, <1>6, <1>7, <1>8 DEF Called

LEMMA CalledTyped ==
    ASSUME TypeInv, Called
    PROVE  TypeInv'
<1>1. /\ op' \in Ops /\ <<op'.kind, pc'>> \in Calls
      /\ result' = "none" /\ answer' = 5 /\ lost' = 0 /\ spoilt' = FALSE
      /\ f' = 0 /\ done' = 0 /\ try' = 0 /\ host' = host /\ card' = card
  BY Calling
<1>2. pc' \in Steps
  BY <1>1 DEF Calls, Steps, InitSteps, ReadSteps, WriteSteps
<1>3. CallSteps'
  BY <1>1 DEF Calls, CallSteps, InitSteps, ReadSteps, WriteSteps
<1>4. pc' \notin {"write bytes", "write wait", "write stop", "write number"}
  BY <1>1 DEF Calls
<1>5. pc' \in ReadSteps \cup WriteSteps => op'.range.count \in Nat /\ 0 <= op'.range.count /\ 0 # op'.range.count
  <2>1. pc' \in ReadSteps \cup WriteSteps => op'.kind = "read" \/ op'.kind = "write"
    BY <1>3 DEF CallSteps
  <2>2. ASSUME op'.kind = "read" \/ op'.kind = "write"
        PROVE  op'.range.count \in 1 .. NSectors
    BY <1>1, <2>2 DEF Ops, Ranges
  <2> QED BY <2>1, <2>2, CardAssumption
<1>6. Counts'
  <2>1. ~Bounded(pc', answer')
    BY <1>4 DEF Bounded
  <2>2. Counted' => pc' \in ReadSteps \cup WriteSteps
    BY DEF Counted
  <2>3. Counted' => /\ 0 <= done' /\ done' <= op'.range.count /\ done' # op'.range.count
    BY <1>1, <1>5, <2>2
  <2>4. f' # 3
    BY <1>1, ZeroBounds
  <2> QED BY <1>1, <2>1, <2>3, <2>4 DEF Counts
<1> QED BY <1>1, <1>2, <1>3, <1>6, TypeParts, ZeroBounds, TypeKept

\* What the replacement of the card changes, in a call and between calls.
LEMMA Swapping ==
    ASSUME TypeInv, Swap
    PROVE  /\ pc' = pc /\ f' = f /\ done' = done /\ try' = try /\ host' = host
           /\ card' \in CardStates
           /\ card'.power = "off" /\ card'.mode = Tran /\ ~card'.crcOn /\ card'.well = 0
           /\ pc = "idle" => op' = [kind |-> "none"] /\ result' = "none" /\ answer' = 5 /\ lost' = 0 /\ spoilt' = FALSE
           /\ pc # "idle" => /\ op' = op /\ result' = result /\ buffer' = buffer /\ answer' = answer
                             /\ lost' = lost /\ spoilt'
           /\ op' \in Ops /\ result' \in {"none", result} /\ answer' \in {5, answer}
           /\ lost' \in {0, lost} /\ spoilt' \in BOOLEAN
<1>1. \E kind \in Kinds, version \in Versions : card' = NewCard(kind, version)
  BY DEF Swap
<1>2. /\ card' \in CardStates
      /\ card'.power = "off" /\ card'.mode = Tran /\ ~card'.crcOn /\ card'.well = 0
  BY <1>1, NewCardTyped
<1>3. pc' = pc /\ f' = f /\ done' = done /\ try' = try /\ host' = host /\ op \in Ops
  BY DEF Swap, TypeInv, TypeOK
<1>4. CASE pc = "idle"
  <2>1. op' = [kind |-> "none"] /\ result' = "none" /\ answer' = 5 /\ lost' = 0 /\ spoilt' = FALSE
    BY <1>4 DEF Swap, Forgotten
  <2>2. [kind |-> "none"] \in Ops
    BY DEF Ops
  <2> QED BY <1>2, <1>3, <1>4, <2>1, <2>2
<1>5. CASE pc # "idle"
  <2>1. op' = op /\ result' = result /\ buffer' = buffer /\ answer' = answer /\ lost' = lost /\ spoilt' = TRUE
    BY <1>5 DEF Swap, data
  <2> QED BY <1>2, <1>3, <1>5, <2>1
<1> QED BY <1>4, <1>5

LEMMA SwapTyped ==
    ASSUME TypeInv, Swap
    PROVE  TypeInv'
<1> USE TypeParts
<1>1. /\ result' \in {"none", "RES_OK", "RES_ERROR", "STA_NOINIT"} /\ answer' \in 0 .. 31
      /\ lost' \in 0 .. MaxFaults /\ spoilt' \in BOOLEAN
  BY Swapping, ZeroBounds
<1>2. /\ card'.well = 0 /\ pc' = pc /\ f' = f /\ done' = done /\ try' = try /\ host' = host
      /\ pc # "idle" => op' = op /\ answer' = answer /\ spoilt'
  BY Swapping
<1>3. CallSteps'
  BY <1>2 DEF TypeInv, CallSteps, InitSteps, ReadSteps, WriteSteps
<1>4. Counts'
  <2>1. CASE Counted'
    <3>1. pc \in ReadSteps \cup WriteSteps /\ pc # "idle"
      BY <1>2, <2>1 DEF Counted, ReadSteps, WriteSteps
    <3>2. Counted
      BY <1>2, <2>1, <3>1 DEF Counted, Intact
    <3>3. 0 <= done
      BY <3>2, CallCounted, Numbers
    <3> QED BY <1>2, <3>1, <3>2, <3>3 DEF TypeInv, Counts
  <2>2. CASE ~Counted'
    BY <1>2, <2>2 DEF TypeInv, Counts
  <2> QED BY <2>1, <2>2
<1> QED BY <1>1, <1>2, <1>3, <1>4, Swapping, TypeKept DEF TypeInv, TypeOK

LEMMA InitialTyped ==
    ASSUME Init
    PROVE  TypeInv
<1>1. op \in Ops /\ pc \in Steps
  BY DEF Init, Ops, Steps
<1>2. host \in HostStates
  BY DEF Init, NewHost, HostStates
<1>3. card \in CardStates
  BY NewCardTyped DEF Init
<1>4. CallSteps /\ Counts
  BY ZeroBounds DEF Init, CallSteps, Counts, Counted, InitSteps, ReadSteps, WriteSteps
<1> QED BY <1>1, <1>2, <1>3, <1>4, ZeroBounds DEF Init, TypeInv, TypeOK, HostStates

LEMMA Stuttering ==
    ASSUME UNCHANGED vars
    PROVE  /\ pc' = pc /\ op' = op /\ f' = f /\ done' = done /\ result' = result /\ buffer' = buffer
           /\ answer' = answer /\ try' = try /\ host' = host /\ card' = card /\ lost' = lost /\ spoilt' = spoilt
BY DEF vars, call, data, faults

\* Every step keeps the type invariant.
LEMMA NextTyped ==
    ASSUME TypeInv, [Next]_vars
    PROVE  TypeInv'
<1>1. CASE UNCHANGED vars
  <2>1. /\ pc' = pc /\ op' = op /\ f' = f /\ done' = done /\ result' = result /\ buffer' = buffer
        /\ answer' = answer /\ try' = try /\ host' = host /\ card' = card /\ lost' = lost /\ spoilt' = spoilt
    BY <1>1, Stuttering
  <2>2. CallSteps' /\ Counts'
    BY <2>1 DEF TypeInv, CallSteps, Counts, Counted, Intact
  <2> QED BY <2>1, <2>2, TypeParts, TypeKept DEF TypeInv, TypeOK
<1> QED BY <1>1, CalledTyped, InitMoves, InitTyped, OtherTyped, ReadTyped, WriteTyped, SwapTyped DEF Next

\* The driver's variables keep their types, and its loops their bounds: at most
\* three attempts of a command and of a transfer, never more blocks than asked
\* for, whatever answers are lost and whenever the card is replaced.
THEOREM TypeCorrect == Spec => []TypeOK
<1>1. Init => TypeInv
  BY InitialTyped
<1>2. TypeInv /\ [Next]_vars => TypeInv'
  BY NextTyped
<1>3. TypeInv => TypeOK
  BY DEF TypeInv
<1> QED BY <1>1, <1>2, <1>3, PTL DEF Spec

\* The type invariant, with the steps of each call and the counts of its loops, which
\* every other invariant rests on.
THEOREM TypeInvariant == Spec => []TypeInv
<1>1. Init => TypeInv
  BY InitialTyped
<1>2. TypeInv /\ [Next]_vars => TypeInv'
  BY NextTyped
<1> QED BY <1>1, <1>2, PTL DEF Spec

-----------------------------------------------------------------------------
\* What a command does to the state of the card.
LEMMA Effects ==
    ASSUME card \in CardStates, NEW cmd, NEW arg
    PROVE  /\ cmd \notin {"GO_IDLE_STATE", "APP_OP_COND", "SEND_OP_COND"} =>
                Executed(cmd, arg).power = card.power
           /\ cmd \notin {"GO_IDLE_STATE", "CRC_ON_OFF"} => Executed(cmd, arg).crcOn = card.crcOn
           /\ cmd \notin Transfers => Executed(cmd, arg).mode \in {card.mode, Tran}
           /\ cmd \in Transfers /\ Token(cmd, arg) # 0 => Executed(cmd, arg) = card
           /\ cmd # "GO_IDLE_STATE" /\ card.power = "off" => Token(cmd, arg) = NoToken /\ Executed(cmd, arg) = card
           /\ cmd = "STOP_TRANSMISSION" /\ Token(cmd, arg) = 0 => Executed(cmd, arg).mode = Tran
<1>1. Token(cmd, arg) \notin {0, 1} => Executed(cmd, arg) = card
  BY DEF Executed
<1>2. cmd # "GO_IDLE_STATE" /\ card.power = "off" => Token(cmd, arg) = NoToken
  BY DEF Token
<1>3. CASE cmd \notin Transfers
  <2>1. /\ cmd \notin {"GO_IDLE_STATE", "APP_OP_COND", "SEND_OP_COND"} =>
             Executed(cmd, arg).power = card.power
        /\ cmd \notin {"GO_IDLE_STATE", "CRC_ON_OFF"} => Executed(cmd, arg).crcOn = card.crcOn
        /\ Executed(cmd, arg).mode \in {card.mode, Tran}
        /\ cmd = "STOP_TRANSMISSION" /\ Token(cmd, arg) = 0 => Executed(cmd, arg).mode = Tran
    BY <1>3 DEF Executed, CardStates, Transfers
  <2> QED BY <1>1, <1>2, <1>3, <2>1 DEF NoToken
<1>4. CASE cmd \in Transfers
  <2>1. Token(cmd, arg) # 0 => Executed(cmd, arg) = card
    <3>1. Token(cmd, arg) # 1
      BY <1>4 DEF Token, Transfers, NoToken, CrcError
    <3> QED BY <1>1, <3>1
  <2>2. Token(cmd, arg) = 0 => Executed(cmd, arg).power = card.power /\ Executed(cmd, arg).crcOn = card.crcOn
    BY <1>4, TransferStarted
  <2>3. cmd \notin {"GO_IDLE_STATE", "CRC_ON_OFF", "STOP_TRANSMISSION"}
    BY <1>4 DEF Transfers
  <2> QED BY <1>1, <1>2, <1>4, <2>1, <2>2, <2>3 DEF NoToken
<1> QED BY <1>3, <1>4

\* What no step of ff_sd_read and ff_sd_write changes.
Kept ==
    /\ op' = op
    /\ host'.type = host.type /\ host'.supports_crc = host.supports_crc
    /\ host'.noinit \in {host.noinit, TRUE}
    /\ card'.kind = card.kind /\ card'.power = card.power /\ card'.crcOn = card.crcOn

Errs == pc' = "idle" /\ result' = "RES_ERROR" /\ ~host'.selected

\* A command did not bring the token wanted: answers were lost, something else
\* happened, or that is the answer of the card.
Failed(cmd, arg, wanted) == (lost' = lost + 1 /\ try = 2) \/ spoilt' \/ Token(cmd, arg) # wanted

Special == {"GO_IDLE_STATE", "APP_OP_COND", "SEND_OP_COND", "CRC_ON_OFF"}

\* What came of a command that the call goes on with if the token is the one wanted.
Came(cmd, arg, wanted, token, h) ==
    /\ Settled /\ h \in HostStates
    /\ h.type = host.type /\ h.supports_crc = host.supports_crc
    /\ h.noinit \in {host.noinit, TRUE}
    /\ ~host.selected => ~h.selected
    /\ card'.kind = card.kind /\ card'.block = card.block
    /\ \/ token = wanted /\ Token(cmd, arg) = wanted /\ card' = Executed(cmd, arg)
          /\ lost' = lost /\ spoilt' = spoilt
       \/ token = 0 /\ Misread(cmd)
       \/ /\ token # wanted /\ Failed(cmd, arg, wanted)
          /\ \/ card' = card
             \/ /\ card' = Executed(cmd, arg)
                /\ cmd \in Transfers \cup {"STOP_TRANSMISSION"} => spoilt' \/ Token(cmd, arg) # wanted

\* What a call goes on with after sdCommand and sdTransaction.
LEMMA OutcomeCame ==
    ASSUME TypeInv, NEW cmd, NEW arg, NEW token, NEW h, NEW wanted, wanted \notin {NoToken, CrcError},
           Settled, h \in HostStates,
           h.type = host.type, h.supports_crc = host.supports_crc,
           h.noinit \in {host.noinit, TRUE}, ~host.selected => ~h.selected,
           Outcome(cmd, arg, token)
    PROVE  Came(cmd, arg, wanted, token, h)
<1>1. card'.kind = card.kind /\ card'.block = card.block
  BY DEF Settled
<1>2. CASE card' = Executed(cmd, arg) /\ token = Token(cmd, arg) /\ lost' = lost /\ spoilt' = spoilt
  BY <1>1, <1>2 DEF Failed, Came
<1>3. CASE Misread(cmd) /\ token = 0
  BY <1>1, <1>3 DEF Came
<1>4. CASE /\ token \in {NoToken, CrcError}
           /\ (lost' = lost + 1 /\ try = 2) \/ spoilt'
           /\ card' = card \/ (card' = Executed(cmd, arg) /\ (cmd \in Transfers \cup {"STOP_TRANSMISSION"} => spoilt'))
  BY <1>1, <1>4 DEF Failed, Came
<1> QED BY <1>2, <1>3, <1>4 DEF Outcome

LEMMA RepliesCame ==
    ASSUME TypeInv, NEW cmd, NEW arg, NEW token, NEW h, NEW wanted, wanted \notin {NoToken, CrcError},
           Replied(cmd, arg, token, h)
    PROVE  Came(cmd, arg, wanted, token, h)
<1>1. TypeOK /\ card \in CardStates
  BY TypeParts
<1>2. /\ Settled /\ h \in HostStates
      /\ h.type = host.type /\ h.supports_crc = host.supports_crc /\ h.selected = host.selected
      /\ h.noinit \in {host.noinit, TRUE} /\ Outcome(cmd, arg, token)
  BY <1>1, Replies
<1> QED BY <1>2, OutcomeCame

LEMMA TransactionsCame ==
    ASSUME TypeInv, NEW cmd, NEW arg, NEW token, NEW h, NEW wanted, wanted \notin {NoToken, CrcError},
           Transacted(cmd, arg, token, h)
    PROVE  Came(cmd, arg, wanted, token, h) /\ cmd \notin Transfers
BY TypeParts, Transactions, OutcomeCame

\* What a command that is sent again changes, if it is none of ff_sd_initialize.
LEMMA RepeatKept ==
    ASSUME TypeInv, NEW cmd, NEW arg, Repeats(cmd, arg), cmd \notin Special
    PROVE  /\ Kept /\ pc' = pc /\ f' = f /\ done' = done /\ result' = result
           /\ buffer' = buffer /\ answer' = answer /\ host' = host
           /\ try' = try + 1 /\ lost' = lost + 1
           /\ card'.block = card.block
           /\ spoilt' \in BOOLEAN /\ (spoilt => spoilt')
           /\ cmd \notin Transfers => card'.mode \in {card.mode, Tran}
           /\ cmd \notin Transfers \cup {"STOP_TRANSMISSION"} => spoilt' = spoilt
           /\ cmd \in Transfers \cup {"STOP_TRANSMISSION"} => spoilt' \/ card' = card
           /\ \/ card'.mode \in {card.mode, Tran}
              \/ cmd \in Transfers /\ spoilt' /\ card.power = "ready" /\ card'.mode \in Sectors
<1> USE TypeParts
<1>1. /\ pc' = pc /\ op' = op /\ f' = f /\ done' = done /\ result' = result
      /\ buffer' = buffer /\ answer' = answer /\ host' = host
      /\ try' = try + 1 /\ lost' = lost + 1
      /\ card'.kind = card.kind /\ card'.block = card.block
      /\ spoilt' \in BOOLEAN /\ (spoilt => spoilt')
      /\ \/ card' = card /\ spoilt' = spoilt
         \/ card' = Executed(cmd, arg) /\ spoilt' = (spoilt \/ cmd \in Transfers \cup {"STOP_TRANSMISSION"})
  BY Repeating
<1>2. card'.power = card.power /\ card'.crcOn = card.crcOn
  BY <1>1, Effects DEF Special
<1>3. Kept
  BY <1>1, <1>2 DEF Kept
<1>4. cmd \notin Transfers => card'.mode \in {card.mode, Tran}
  BY <1>1, Effects
<1>5. ASSUME cmd \in Transfers, card' # card
      PROVE  spoilt' /\ card.power = "ready" /\ card'.mode \in Sectors
  <2>1. card' = Executed(cmd, arg) /\ spoilt'
    BY <1>1, <1>5
  <2>2. Token(cmd, arg) = 0
    BY <1>5, <2>1, Effects
  <2> QED BY <1>5, <2>1, <2>2, TransferStarted
<1>6. cmd \notin Transfers \cup {"STOP_TRANSMISSION"} => spoilt' = spoilt
  BY <1>1
<1>7. cmd \in Transfers \cup {"STOP_TRANSMISSION"} => spoilt' \/ card' = card
  BY <1>1
<1> QED BY <1>1, <1>3, <1>4, <1>5, <1>6, <1>7

LEMMA ZeroWanted == 0 \notin {NoToken, CrcError}
BY DEF NoToken, CrcError

LEMMA OneWanted == 0 \notin {NoToken, CrcError} /\ 1 \notin {NoToken, CrcError}
BY DEF NoToken, CrcError

LEMMA ErrorKept ==
    ASSUME NEW h \in HostStates, ErrorOf(h)
    PROVE  /\ Errs /\ op' = op
           /\ host'.type = h.type /\ host'.supports_crc = h.supports_crc /\ host'.noinit = h.noinit
BY HostDeselected DEF ErrorOf, Return, Errs

\* The steps of ff_sd_read and ff_sd_write: what each changes, and when it ends the call.
LEMMA ReadCommandStep ==
    ASSUME TypeInv, ReadCommand, ~Repeats(ReadTransfer, Place)
    PROVE  \E cmd, arg :
              /\ cmd = ReadTransfer
              /\ arg = Place
              /\ pc = "read command" /\ Settled /\ Kept
              /\ \/ /\ pc' = "read bytes" /\ f' = f /\ done' = done /\ result' = result
                    /\ card.mode = Tran /\ card.power = "ready" /\ card'.mode \in Sectors
                    /\ \/ card'.mode = Addressed(arg) /\ lost' = lost /\ spoilt' = spoilt
                       \/ ~host.supports_crc /\ spoilt'
                 \/ /\ Errs /\ Failed(cmd, arg, 0)
                    /\ \/ card' = card
                       \/ spoilt' /\ card.power = "ready" /\ card'.mode \in Sectors
<1>1. PICK cmd, arg, token, h :
        /\ cmd = ReadTransfer
        /\ arg = Place
        /\ Replied(cmd, arg, token, h)
        /\ IF token = 0 THEN Continue("read bytes", h) ELSE ErrorOf(h)
  BY ReadCommandForm
<1>2. cmd \in Transfers /\ cmd \notin Special /\ pc = "read command"
  BY <1>1, TransferCommands, ReadCommandForm DEF Transfers, Special, ReadTransfer
<1>3. Came(cmd, arg, 0, token, h)
  BY <1>1, ZeroWanted, RepliesCame
<1>4. card'.power = card.power /\ card'.crcOn = card.crcOn
  <2>1. card' = Executed(cmd, arg) \/ card' = card \/ Misread(cmd)
    BY <1>3 DEF Came
  <2> QED BY <1>2, <2>1, TypeParts, Effects, Misreading DEF Special
<1>5. CASE token = 0
  <2>1. Continue("read bytes", h)
    BY <1>1, <1>5
  <2>2. Kept /\ pc' = "read bytes" /\ f' = f /\ done' = done /\ result' = result
    BY <1>3, <1>4, <2>1 DEF Came, Continue, call, Kept
  <2>3. /\ card.mode = Tran /\ card.power = "ready" /\ card'.mode \in Sectors
        /\ \/ card'.mode = Addressed(arg) /\ lost' = lost /\ spoilt' = spoilt
           \/ ~host.supports_crc /\ spoilt'
    <3>1. CASE Misread(cmd)
      BY <3>1, TypeParts, Misreading DEF Misread, InTransfer
    <3>2. CASE card' = Executed(cmd, arg) /\ Token(cmd, arg) = 0 /\ lost' = lost /\ spoilt' = spoilt
      BY <1>2, <3>2, TransferStarted, TypeParts
    <3> QED BY <1>3, <1>5, <3>1, <3>2 DEF Came
  <2> QED BY <1>1, <1>2, <1>3, <2>2, <2>3 DEF Came
<1>6. CASE token # 0
  <2>1. ErrorOf(h)
    BY <1>1, <1>6
  <2>2. /\ Errs /\ op' = op
        /\ host'.type = h.type /\ host'.supports_crc = h.supports_crc /\ host'.noinit = h.noinit
    BY <1>3, <2>1, ErrorKept DEF Came
  <2>3. Kept
    BY <1>3, <1>4, <2>2 DEF Came, Kept
  <2>4. /\ Failed(cmd, arg, 0)
        /\ card' = card \/ (card' = Executed(cmd, arg) /\ (spoilt' \/ Token(cmd, arg) # 0))
    BY <1>2, <1>3, <1>6 DEF Came
  <2>5. card' = card \/ (spoilt' /\ card.power = "ready" /\ card'.mode \in Sectors)
    <3>1. CASE Token(cmd, arg) # 0
      BY <1>2, <2>4, <3>1, TypeParts, Effects
    <3>2. CASE Token(cmd, arg) = 0
      BY <1>2, <2>4, <3>2, TypeParts, TransferStarted
    <3> QED BY <3>1, <3>2
  <2> QED BY <1>1, <1>2, <1>3, <2>2, <2>3, <2>4, <2>5 DEF Came
<1> QED BY <1>5, <1>6

LEMMA WriteCommandStep ==
    ASSUME TypeInv, WriteCommand, ~Repeats(WriteTransfer, Place)
    PROVE  \E cmd, arg :
              /\ cmd = WriteTransfer
              /\ arg = Place
              /\ pc = "write command" /\ Settled /\ Kept
              /\ \/ /\ pc' = "write bytes" /\ f' = f /\ done' = done /\ result' = result
                    /\ card.mode = Tran /\ card.power = "ready" /\ card'.mode \in Sectors
                    /\ \/ card'.mode = Addressed(arg) /\ lost' = lost /\ spoilt' = spoilt
                       \/ ~host.supports_crc /\ spoilt'
                 \/ /\ Errs /\ Failed(cmd, arg, 0)
                    /\ \/ card' = card
                       \/ spoilt' /\ card.power = "ready" /\ card'.mode \in Sectors
<1>1. PICK cmd, arg, token, h :
        /\ cmd = WriteTransfer
        /\ arg = Place
        /\ Replied(cmd, arg, token, h)
        /\ IF token = 0 THEN Continue("write bytes", h) ELSE ErrorOf(h)
  BY WriteCommandForm
<1>2. cmd \in Transfers /\ cmd \notin Special /\ pc = "write command"
  BY <1>1, TransferCommands, WriteCommandForm DEF Transfers, Special, WriteTransfer
<1>3. Came(cmd, arg, 0, token, h)
  BY <1>1, ZeroWanted, RepliesCame
<1>4. card'.power = card.power /\ card'.crcOn = card.crcOn
  <2>1. card' = Executed(cmd, arg) \/ card' = card \/ Misread(cmd)
    BY <1>3 DEF Came
  <2> QED BY <1>2, <2>1, TypeParts, Effects, Misreading DEF Special
<1>5. CASE token = 0
  <2>1. Continue("write bytes", h)
    BY <1>1, <1>5
  <2>2. Kept /\ pc' = "write bytes" /\ f' = f /\ done' = done /\ result' = result
    BY <1>3, <1>4, <2>1 DEF Came, Continue, call, Kept
  <2>3. /\ card.mode = Tran /\ card.power = "ready" /\ card'.mode \in Sectors
        /\ \/ card'.mode = Addressed(arg) /\ lost' = lost /\ spoilt' = spoilt
           \/ ~host.supports_crc /\ spoilt'
    <3>1. CASE Misread(cmd)
      BY <3>1, TypeParts, Misreading DEF Misread, InTransfer
    <3>2. CASE card' = Executed(cmd, arg) /\ Token(cmd, arg) = 0 /\ lost' = lost /\ spoilt' = spoilt
      BY <1>2, <3>2, TransferStarted, TypeParts
    <3> QED BY <1>3, <1>5, <3>1, <3>2 DEF Came
  <2> QED BY <1>1, <1>2, <1>3, <2>2, <2>3 DEF Came
<1>6. CASE token # 0
  <2>1. ErrorOf(h)
    BY <1>1, <1>6
  <2>2. /\ Errs /\ op' = op
        /\ host'.type = h.type /\ host'.supports_crc = h.supports_crc /\ host'.noinit = h.noinit
    BY <1>3, <2>1, ErrorKept DEF Came
  <2>3. Kept
    BY <1>3, <1>4, <2>2 DEF Came, Kept
  <2>4. /\ Failed(cmd, arg, 0)
        /\ card' = card \/ (card' = Executed(cmd, arg) /\ (spoilt' \/ Token(cmd, arg) # 0))
    BY <1>2, <1>3, <1>6 DEF Came
  <2>5. card' = card \/ (spoilt' /\ card.power = "ready" /\ card'.mode \in Sectors)
    <3>1. CASE Token(cmd, arg) # 0
      BY <1>2, <2>4, <3>1, TypeParts, Effects
    <3>2. CASE Token(cmd, arg) = 0
      BY <1>2, <2>4, <3>2, TypeParts, TransferStarted
    <3> QED BY <3>1, <3>2
  <2> QED BY <1>1, <1>2, <1>3, <2>2, <2>3, <2>4, <2>5 DEF Came
<1> QED BY <1>5, <1>6

LEMMA CameKept ==
    ASSUME TypeInv, NEW cmd, NEW arg, NEW token, NEW h, NEW wanted, Came(cmd, arg, wanted, token, h),
           cmd \notin Special \cup Transfers
    PROVE  card'.power = card.power /\ card'.crcOn = card.crcOn /\ card'.mode \in {card.mode, Tran}
<1>1. card' = card \/ card' = Executed(cmd, arg)
  BY DEF Came, Misread
<1> QED BY <1>1, TypeParts, Effects DEF Special

LEMMA ContinueKept ==
    ASSUME NEW step, NEW h, Continue(step, h)
    PROVE  pc' = step /\ host' = h /\ op' = op /\ f' = f /\ done' = done /\ result' = result
BY DEF Continue, call

LEMMA ReadStopStep ==
    ASSUME TypeInv, ReadStop, ~Repeats("STOP_TRANSMISSION", 0)
    PROVE  /\ pc = "read stop" /\ Settled /\ Kept /\ card'.mode \in {card.mode, Tran}
           /\ \/ Errs /\ (Failed("STOP_TRANSMISSION", 0, 0) \/ f = 3)
              \/ /\ done = op.range.count /\ pc' = "idle" /\ result' = "RES_OK"
                 /\ ~host'.selected /\ card'.mode = Tran
              \/ /\ pc' = "read" /\ f # 3 /\ f' = f /\ done' = done /\ result' = result
                 /\ ~host'.selected /\ card'.mode = Tran /\ lost' = lost /\ spoilt' = spoilt
<1>1. PICK token, h :
        /\ Replied("STOP_TRANSMISSION", 0, token, h)
        /\ \/ token # 0 /\ ErrorOf(h)
           \/ token = 0 /\ done = op.range.count /\ Return("RES_OK", Deselected(h))
           \/ token = 0 /\ done # op.range.count /\ Retry(f, "read", h)
  BY ReadStopForm
<1>2. pc = "read stop"
  BY ReadStopForm
<1>3. Came("STOP_TRANSMISSION", 0, 0, token, h)
  BY <1>1, ZeroWanted, RepliesCame
<1>4. card'.power = card.power /\ card'.crcOn = card.crcOn /\ card'.mode \in {card.mode, Tran}
  BY <1>3, CameKept DEF Special, Transfers
<1>5. /\ Settled /\ h \in HostStates
      /\ h.type = host.type /\ h.supports_crc = host.supports_crc
      /\ h.noinit \in {host.noinit, TRUE} /\ card'.kind = card.kind
  BY <1>3 DEF Came
<1>6. /\ ~Deselected(h).selected
      /\ Deselected(h).type = h.type /\ Deselected(h).supports_crc = h.supports_crc
      /\ Deselected(h).noinit = h.noinit
  BY <1>5, HostDeselected
<1>7. CASE token # 0
  <2>1. ErrorOf(h) /\ Failed("STOP_TRANSMISSION", 0, 0)
    BY <1>1, <1>3, <1>7 DEF Came
  <2>2. /\ Errs /\ op' = op
        /\ host'.type = h.type /\ host'.supports_crc = h.supports_crc /\ host'.noinit = h.noinit
    BY <1>5, <2>1, ErrorKept
  <2> QED BY <1>2, <1>4, <1>5, <2>1, <2>2 DEF Kept
<1>8. CASE token = 0
  <2>1. card'.mode = Tran /\ lost' = lost /\ spoilt' = spoilt
    <3>1. card' = Executed("STOP_TRANSMISSION", 0) /\ Token("STOP_TRANSMISSION", 0) = 0
          /\ lost' = lost /\ spoilt' = spoilt
      BY <1>3, <1>8 DEF Came, Misread, Transfers
    <3> QED BY <3>1, TypeParts, Effects
  <2>2. CASE done = op.range.count
    <3>1. Return("RES_OK", Deselected(h))
      BY <1>1, <1>8, <2>2
    <3>2. pc' = "idle" /\ result' = "RES_OK" /\ host' = Deselected(h) /\ op' = op
      BY <3>1 DEF Return
    <3> QED BY <1>2, <1>4, <1>5, <1>6, <2>1, <2>2, <3>2 DEF Kept
  <2>3. CASE done # op.range.count
    <3>1. Retry(f, "read", h)
      BY <1>1, <1>8, <2>3
    <3>2. CASE f < 3
      <4>1. pc' = "read" /\ f' = f /\ host' = Deselected(h) /\ op' = op /\ done' = done /\ result' = result
        BY <3>1, <3>2 DEF Retry
      <4>2. f # 3
        BY <3>2
      <4> QED BY <1>2, <1>4, <1>5, <1>6, <2>1, <4>1, <4>2 DEF Kept
    <3>3. CASE ~(f < 3)
      <4>1. ErrorOf(h)
        BY <3>1, <3>3 DEF Retry
      <4>2. f = 3
        BY <3>3, TypeParts
      <4>3. /\ Errs /\ op' = op
            /\ host'.type = h.type /\ host'.supports_crc = h.supports_crc /\ host'.noinit = h.noinit
        BY <1>5, <4>1, ErrorKept
      <4> QED BY <1>2, <1>4, <1>5, <4>2, <4>3 DEF Kept
    <3> QED BY <3>2, <3>3
  <2> QED BY <2>2, <2>3
<1> QED BY <1>7, <1>8

LEMMA WriteEraseStep ==
    ASSUME TypeInv, WriteErase, ~Repeats("SET_WR_BLK_ERASE_COUNT", 0)
    PROVE  /\ pc = "write erase" /\ Settled /\ Kept /\ card'.mode \in {card.mode, Tran}
           /\ \/ /\ pc' = "write" /\ f' = f /\ done' = done /\ result' = result
                 /\ ~host.selected => ~host'.selected
              \/ Errs /\ host.type # "CARD_MMC" /\ Failed("SET_WR_BLK_ERASE_COUNT", 0, 0)
<1>1. pc = "write erase"
  BY WriteEraseForm
<1>2. CASE host.type = "CARD_MMC" /\ Continue("write", host) /\ UNCHANGED <<data, try, card, faults>>
  <2>1. try = 0
    BY <1>1, <1>2 DEF TypeInv, Counts
  <2>2. card' = card /\ UNCHANGED <<data, try, card, lost>> /\ spoilt' \in {spoilt, TRUE}
    BY <1>2 DEF faults
  <2>3. Settled
    BY <2>1, <2>2, Unsettled
  <2>4. pc' = "write" /\ host' = host /\ op' = op /\ f' = f /\ done' = done /\ result' = result
    BY <1>2, ContinueKept
  <2> QED BY <1>1, <2>2, <2>3, <2>4 DEF Kept
<1>3. CASE host.type # "CARD_MMC"
  <2>1. PICK token, h : /\ Transacted("SET_WR_BLK_ERASE_COUNT", 0, token, h)
                        /\ IF token = 0 THEN Continue("write", h) ELSE ErrorOf(h)
    BY <1>3, WriteEraseForm
  <2>2. Came("SET_WR_BLK_ERASE_COUNT", 0, 0, token, h)
    BY <2>1, ZeroWanted, TransactionsCame
  <2>3. card'.power = card.power /\ card'.crcOn = card.crcOn /\ card'.mode \in {card.mode, Tran}
    BY <2>2, CameKept DEF Special, Transfers
  <2>4. /\ Settled /\ h \in HostStates
        /\ h.type = host.type /\ h.supports_crc = host.supports_crc
        /\ h.noinit \in {host.noinit, TRUE} /\ card'.kind = card.kind
        /\ ~host.selected => ~h.selected
    BY <2>2 DEF Came
  <2>5. CASE token = 0
    <3>1. pc' = "write" /\ host' = h /\ op' = op /\ f' = f /\ done' = done /\ result' = result
      BY <2>1, <2>5, ContinueKept
    <3> QED BY <1>1, <2>3, <2>4, <3>1 DEF Kept
  <2>6. CASE token # 0
    <3>1. ErrorOf(h) /\ Failed("SET_WR_BLK_ERASE_COUNT", 0, 0)
      BY <2>1, <2>2, <2>6 DEF Came
    <3>2. /\ Errs /\ op' = op
          /\ host'.type = h.type /\ host'.supports_crc = h.supports_crc /\ host'.noinit = h.noinit
      BY <2>4, <3>1, ErrorKept
    <3> QED BY <1>1, <1>3, <2>3, <2>4, <3>1, <3>2 DEF Kept
  <2> QED BY <2>5, <2>6
<1> QED BY <1>2, <1>3, WriteEraseForm

LEMMA WriteStopStep ==
    ASSUME TypeInv, WriteStop, ~Repeats("STOP_TRANSMISSION", 0)
    PROVE  /\ pc = "write stop" /\ Settled /\ Kept /\ card'.mode \in {card.mode, Tran}
           /\ \/ /\ pc' = "write number" /\ f' = f /\ done' = done /\ result' = result
                 /\ ~host'.selected
              \/ Errs
<1>1. PICK token, h : /\ Replied("STOP_TRANSMISSION", 0, token, h)
                      /\ IF token = 0 /\ Repeated(answer)
                         THEN Continue("write number", Deselected(h)) ELSE ErrorOf(h)
  BY WriteStopForm
<1>2. pc = "write stop"
  BY WriteStopForm
<1>3. Came("STOP_TRANSMISSION", 0, 0, token, h)
  BY <1>1, ZeroWanted, RepliesCame
<1>4. card'.power = card.power /\ card'.crcOn = card.crcOn /\ card'.mode \in {card.mode, Tran}
  BY <1>3, CameKept DEF Special, Transfers
<1>5. /\ Settled /\ h \in HostStates
      /\ h.type = host.type /\ h.supports_crc = host.supports_crc
      /\ h.noinit \in {host.noinit, TRUE} /\ card'.kind = card.kind
  BY <1>3 DEF Came
<1>6. /\ ~Deselected(h).selected
      /\ Deselected(h).type = h.type /\ Deselected(h).supports_crc = h.supports_crc
      /\ Deselected(h).noinit = h.noinit
  BY <1>5, HostDeselected
<1>7. CASE Continue("write number", Deselected(h))
  <2>1. /\ pc' = "write number" /\ host' = Deselected(h) /\ op' = op
        /\ f' = f /\ done' = done /\ result' = result
    BY <1>7, ContinueKept
  <2> QED BY <1>2, <1>4, <1>5, <1>6, <2>1 DEF Kept
<1>8. CASE ErrorOf(h)
  <2>1. /\ Errs /\ op' = op
        /\ host'.type = h.type /\ host'.supports_crc = h.supports_crc /\ host'.noinit = h.noinit
    BY <1>5, <1>8, ErrorKept
  <2> QED BY <1>2, <1>4, <1>5, <2>1 DEF Kept
<1> QED BY <1>1, <1>7, <1>8

LEMMA ResumeKept ==
    ASSUME NEW written, NEW h \in HostStates, Resume(written, h)
    PROVE  /\ op' = op
           /\ host'.type = h.type /\ host'.supports_crc = h.supports_crc /\ host'.noinit = h.noinit
           /\ \/ /\ pc' = "write erase" /\ done' = written /\ f' = f /\ result' = result
                 /\ ~host'.selected
              \/ Errs
<1>1. CASE f < 3
  BY <1>1, HostDeselected DEF Resume
<1>2. CASE ~(f < 3)
  BY <1>2, ErrorKept DEF Resume
<1> QED BY <1>1, <1>2

LEMMA WriteNumberStep ==
    ASSUME TypeInv, WriteNumber, ~Repeats("SEND_NUM_WR_BLOCKS", 0)
    PROVE  /\ pc = "write number" /\ Settled /\ Kept /\ card'.mode \in {card.mode, Tran}
           /\ \/ /\ pc' = "write erase" /\ f' = f /\ result' = result /\ ~host'.selected
                 /\ Intact /\ Intact' => done' \in Nat /\ done' <= done
              \/ Errs
<1>1. pc = "write number" /\ pc \in ReadSteps \cup WriteSteps
  BY WriteNumberForm DEF WriteSteps
<1>2. card.well \in Nat /\ 0 \in Nat /\ (Intact => card.well <= done /\ 0 <= done)
  <2>1. Intact => Counted
    BY <1>1 DEF Counted, WriteSteps
  <2>2. Bounded(pc, answer)
    BY <1>1 DEF Bounded
  <2> QED BY <1>1, <2>1, <2>2, CallTyped, CallCounted, Numbers
<1>3. CASE host.type = "CARD_MMC" /\ Resume(0, host) /\ UNCHANGED <<data, try, card, faults>>
  <2>1. try = 0
    BY <1>1, <1>3 DEF TypeInv, Counts
  <2>2. card' = card /\ UNCHANGED <<data, try, card, lost>> /\ spoilt' \in {spoilt, TRUE}
    BY <1>3 DEF faults
  <2>3. Settled
    BY <2>1, <2>2, Unsettled
  <2>4. /\ op' = op
        /\ host'.type = host.type /\ host'.supports_crc = host.supports_crc /\ host'.noinit = host.noinit
        /\ \/ /\ pc' = "write erase" /\ done' = 0 /\ f' = f /\ result' = result
              /\ ~host'.selected
           \/ Errs
    BY <1>3, TypeParts, ResumeKept
  <2> QED BY <1>1, <1>2, <2>2, <2>3, <2>4 DEF Kept
<1>4. CASE \E token, h : /\ Transacted("SEND_NUM_WR_BLOCKS", 0, token, h)
                         /\ \E written \in {0, card.well} : Resume(written, h)
  <2>1. PICK token, h : /\ Transacted("SEND_NUM_WR_BLOCKS", 0, token, h)
                        /\ \E written \in {0, card.well} : Resume(written, h)
    BY <1>4
  <2>2. PICK written \in {0, card.well} : Resume(written, h)
    BY <2>1
  <2>3. Came("SEND_NUM_WR_BLOCKS", 0, 0, token, h)
    BY <2>1, ZeroWanted, TransactionsCame
  <2>4. card'.power = card.power /\ card'.crcOn = card.crcOn /\ card'.mode \in {card.mode, Tran}
    BY <2>3, CameKept DEF Special, Transfers
  <2>5. /\ Settled /\ h \in HostStates
        /\ h.type = host.type /\ h.supports_crc = host.supports_crc
        /\ h.noinit \in {host.noinit, TRUE} /\ card'.kind = card.kind
    BY <2>3 DEF Came
  <2>6. /\ op' = op
        /\ host'.type = h.type /\ host'.supports_crc = h.supports_crc /\ host'.noinit = h.noinit
        /\ \/ /\ pc' = "write erase" /\ done' = written /\ f' = f /\ result' = result
              /\ ~host'.selected
           \/ Errs
    BY <2>2, <2>5, ResumeKept
  <2>7. written \in Nat /\ (Intact => written <= done)
    BY <1>2, <2>2
  <2> QED BY <1>1, <2>4, <2>5, <2>6, <2>7 DEF Kept
<1>5. CASE Miscounted
  <2>1. /\ ~host.supports_crc /\ spoilt' = TRUE /\ card' = card /\ try = 0
        /\ UNCHANGED <<data, try, card, lost>> /\ spoilt' \in {spoilt, TRUE}
    BY <1>5 DEF Miscounted
  <2>2. Settled
    BY <2>1, Unsettled
  <2>3. PICK written : Resume(written, host)
    BY <1>5 DEF Miscounted
  <2>4. /\ op' = op
        /\ host'.type = host.type /\ host'.supports_crc = host.supports_crc /\ host'.noinit = host.noinit
        /\ \/ /\ pc' = "write erase" /\ done' = written /\ f' = f /\ result' = result
              /\ ~host'.selected
           \/ Errs
    BY <2>3, TypeParts, ResumeKept
  <2>5. ~Intact'
    BY <2>1, <2>4 DEF Intact
  <2> QED BY <1>1, <2>1, <2>2, <2>4, <2>5 DEF Kept
<1> QED BY <1>3, <1>4, <1>5, WriteNumberForm

LEMMA WriteStatusStep ==
    ASSUME TypeInv, WriteStatus, ~Repeats("SEND_STATUS", 0)
    PROVE  /\ pc = "write status" /\ Settled /\ Kept /\ card'.mode \in {card.mode, Tran}
           /\ \/ /\ pc' = "idle" /\ result' = "RES_OK" /\ card.power # "off"
                 /\ ~host.selected => ~host'.selected
                 /\ spoilt' = spoilt
              \/ Errs /\ Failed("SEND_STATUS", 0, 0)
<1>1. pc = "write status"
  BY WriteStatusForm
<1>2. CASE \E token, h : /\ Transacted("SEND_STATUS", 0, token, h)
                         /\ IF token = 0 THEN Return("RES_OK", h) ELSE ErrorOf(h)
  <2>1. PICK token, h : /\ Transacted("SEND_STATUS", 0, token, h)
                        /\ IF token = 0 THEN Return("RES_OK", h) ELSE ErrorOf(h)
    BY <1>2
  <2>3. Came("SEND_STATUS", 0, 0, token, h)
    BY <2>1, ZeroWanted, TransactionsCame
  <2>4. card'.power = card.power /\ card'.crcOn = card.crcOn /\ card'.mode \in {card.mode, Tran}
    BY <2>3, CameKept DEF Special, Transfers
  <2>5. /\ Settled /\ h \in HostStates
        /\ h.type = host.type /\ h.supports_crc = host.supports_crc
        /\ h.noinit \in {host.noinit, TRUE} /\ card'.kind = card.kind
        /\ ~host.selected => ~h.selected
    BY <2>3 DEF Came
  <2>6. CASE token = 0
    <3>1. pc' = "idle" /\ result' = "RES_OK" /\ host' = h /\ op' = op
      BY <2>1, <2>6 DEF Return
    <3>2. Token("SEND_STATUS", 0) = 0 /\ spoilt' = spoilt
      BY <2>3, <2>6 DEF Came, Misread, Transfers
    <3>3. card.power # "off"
      BY <3>2, TypeParts, ZeroWanted, Effects
    <3> QED BY <1>1, <2>4, <2>5, <3>1, <3>2, <3>3 DEF Kept
  <2>7. CASE token # 0
    <3>1. ErrorOf(h) /\ Failed("SEND_STATUS", 0, 0)
      BY <2>1, <2>3, <2>7 DEF Came
    <3>2. /\ Errs /\ op' = op
          /\ host'.type = h.type /\ host'.supports_crc = h.supports_crc /\ host'.noinit = h.noinit
      BY <2>5, <3>1, ErrorKept
    <3> QED BY <1>1, <2>4, <2>5, <3>1, <3>2 DEF Kept
  <2> QED BY <2>6, <2>7
<1>3. CASE WriteError
  <2>1. /\ ErrorOf(host) /\ spoilt' = TRUE /\ card' = card /\ try = 0
        /\ UNCHANGED <<data, try, card, lost>> /\ spoilt' \in {spoilt, TRUE}
    BY <1>3 DEF WriteError
  <2>2. Settled
    BY <2>1, Unsettled
  <2>3. /\ Errs /\ op' = op
        /\ host'.type = host.type /\ host'.supports_crc = host.supports_crc /\ host'.noinit = host.noinit
    BY <2>1, TypeParts, ErrorKept
  <2> QED BY <1>1, <2>1, <2>2, <2>3 DEF Kept, Failed
<1> QED BY <1>2, <1>3, WriteStatusForm

LEMMA StatusStep ==
    ASSUME TypeInv, ff_sd_status, ~Repeats("SEND_STATUS", 0)
    PROVE  /\ pc = "status" /\ Settled /\ Kept /\ card'.mode \in {card.mode, Tran}
           /\ pc' = "idle" /\ (~host.selected => ~host'.selected)
<1>1. PICK token, h : /\ Transacted("SEND_STATUS", 0, token, h)
                      /\ Return(IF token # 0 \/ h.noinit THEN "STA_NOINIT" ELSE "RES_OK", h)
  BY OtherForms
<1>2. pc = "status"
  BY OtherForms
<1>3. Came("SEND_STATUS", 0, 0, token, h)
  BY <1>1, ZeroWanted, TransactionsCame
<1>4. card'.power = card.power /\ card'.crcOn = card.crcOn /\ card'.mode \in {card.mode, Tran}
  BY <1>3, CameKept DEF Special, Transfers
<1>5. pc' = "idle" /\ host' = h /\ op' = op
  BY <1>1 DEF Return
<1> QED BY <1>2, <1>3, <1>4, <1>5 DEF Came, Kept

LEMMA GoIdleToken == Token("GO_IDLE_STATE", 0) = 1
BY DEF Token

LEMMA EndStep ==
    ASSUME TypeInv, EndBegin, ~Repeats("GO_IDLE_STATE", 0)
    PROVE  /\ pc = "end" /\ Settled /\ op' = op /\ pc' = "idle" /\ host' = NewHost /\ result' = "none"
           /\ \/ card' = card
              \/ card'.power = "idle" /\ card'.mode = Tran /\ ~card'.crcOn
<1>1. PICK token, h : Transacted("GO_IDLE_STATE", 0, token, h) /\ Return("none", NewHost)
  BY OtherForms
<1>2. pc = "end"
  BY OtherForms
<1>3. Settled /\ (card' = card \/ card' = Executed("GO_IDLE_STATE", 0))
  <2>1. Came("GO_IDLE_STATE", 0, 1, token, h)
    BY <1>1, OneWanted, TransactionsCame
  <2> QED BY <2>1 DEF Came, Misread, Transfers
<1>4. Executed("GO_IDLE_STATE", 0) = [card EXCEPT !.power = "idle", !.crcOn = FALSE, !.mode = Tran]
  BY GoIdleToken DEF Executed, Transfers
<1>5. /\ [card EXCEPT !.power = "idle", !.crcOn = FALSE, !.mode = Tran].power = "idle"
      /\ [card EXCEPT !.power = "idle", !.crcOn = FALSE, !.mode = Tran].mode = Tran
      /\ ~[card EXCEPT !.power = "idle", !.crcOn = FALSE, !.mode = Tran].crcOn
  BY TypeParts DEF CardStates
<1> QED BY <1>1, <1>2, <1>3, <1>4, <1>5 DEF Return

\* What no step of a transfer of data changes.
LEMMA SelectStep ==
    ASSUME TypeInv, NEW step \in {"read", "write"}, NEW next, Select(step, next)
    PROVE  /\ pc = step /\ Kept /\ card' = card /\ buffer' = buffer /\ answer' = answer
           /\ lost' = lost /\ try' = 0
           /\ \/ pc' = next /\ f' = f /\ done' = done /\ result' = result /\ spoilt' = spoilt
              \/ Errs /\ spoilt'
<1>1. pc = step /\ try = 0
  BY DEF Select, TypeInv, Counts
<1>2. card' = card /\ buffer' = buffer /\ answer' = answer /\ lost' = lost /\ try' = 0
  BY <1>1 DEF Select, data, faults
<1>3. CASE Continue(next, [host EXCEPT !.selected = TRUE]) /\ UNCHANGED faults
  <2>1. /\ [host EXCEPT !.selected = TRUE].type = host.type
        /\ [host EXCEPT !.selected = TRUE].supports_crc = host.supports_crc
        /\ [host EXCEPT !.selected = TRUE].noinit = host.noinit
    BY TypeParts DEF HostStates
  <2>2. /\ pc' = next /\ host' = [host EXCEPT !.selected = TRUE]
        /\ op' = op /\ f' = f /\ done' = done /\ result' = result
    BY <1>3 DEF Continue, call
  <2>3. spoilt' = spoilt
    BY <1>3 DEF faults
  <2> QED BY <1>1, <1>2, <2>1, <2>2, <2>3 DEF Kept
<1>4. CASE Return("RES_ERROR", Deselected(host)) /\ spoilt' = TRUE
  <2>1. /\ ~Deselected(host).selected /\ Deselected(host).type = host.type
        /\ Deselected(host).supports_crc = host.supports_crc /\ Deselected(host).noinit = host.noinit
    BY TypeParts, HostDeselected
  <2>2. pc' = "idle" /\ result' = "RES_ERROR" /\ host' = Deselected(host) /\ op' = op
    BY <1>4 DEF Return
  <2> QED BY <1>1, <1>2, <1>4, <2>1, <2>2 DEF Kept, Errs
<1> QED BY <1>3, <1>4 DEF Select

\* The place of the card after a block.
NextPlace == IF op.range.count = 1 THEN Tran ELSE card.mode + 1

\* The end of an attempt that failed.
LEMMA RetryKept ==
    ASSUME TypeInv, NEW attempts, NEW step, Retry(attempts, step, host)
    PROVE  /\ op' = op
           /\ host'.type = host.type /\ host'.supports_crc = host.supports_crc /\ host'.noinit = host.noinit
           /\ \/ /\ pc' = step /\ f' = attempts /\ done' = done /\ result' = result
                 /\ ~host'.selected
              \/ Errs /\ ~(attempts < 3)
<1> USE TypeParts
<1>1. CASE attempts < 3
  BY <1>1, HostDeselected DEF Retry
<1>2. CASE ~(attempts < 3)
  BY <1>2, ErrorKept DEF Retry
<1> QED BY <1>1, <1>2

LEMMA ReadGoodStep ==
    ASSUME TypeInv, ReadGood
    PROVE  /\ pc = "read bytes" /\ card.mode \in Sectors /\ Kept
           /\ card'.block = card.block /\ card'.mode = NextPlace
           /\ answer' = answer /\ lost' = lost /\ try' = 0
           /\ \/ buffer' = [buffer EXCEPT ![done + 1] = card.block[card.mode]] /\ spoilt' = spoilt
              \/ /\ ~host.supports_crc /\ spoilt'
                 /\ \E block \in Damaged : buffer' = [buffer EXCEPT ![done + 1] = block]
           /\ \/ op.range.count = 1 /\ pc' = "idle" /\ result' = "RES_OK" /\ ~host'.selected
              \/ /\ op.range.count # 1 /\ done' = done + 1 /\ f' = 0 /\ result' = result /\ host' = host
                 /\ pc' = IF done' = op.range.count THEN "read stop" ELSE "read bytes"
<1> USE TypeParts
<1>1. pc = "read bytes" /\ pc \in ReadSteps \cup WriteSteps /\ card.mode \in Sectors
  BY DEF ReadGood, ReadSteps, OnCard
<1>2. /\ card'.block = card.block /\ card'.mode = NextPlace /\ card'.kind = card.kind
      /\ card'.power = card.power /\ card'.crcOn = card.crcOn
  BY <1>1, BlockPassed DEF ReadGood, NextPlace
<1>3. answer' = answer /\ lost' = lost /\ try' = 0
  BY <1>1 DEF ReadGood, TypeInv, Counts
<1>4. \/ buffer' = [buffer EXCEPT ![done + 1] = card.block[card.mode]] /\ spoilt' = spoilt
      \/ /\ ~host.supports_crc /\ spoilt'
         /\ \E block \in Damaged : buffer' = [buffer EXCEPT ![done + 1] = block]
  BY DEF ReadGood
<1>5. CASE op.range.count = 1
  <2>1. Return("RES_OK", Deselected(host))
    BY <1>5 DEF ReadGood
  <2>2. pc' = "idle" /\ result' = "RES_OK" /\ host' = Deselected(host) /\ op' = op
    BY <2>1 DEF Return
  <2>3. /\ ~host'.selected /\ host'.type = host.type /\ host'.supports_crc = host.supports_crc
        /\ host'.noinit = host.noinit
    BY <2>2, HostDeselected
  <2> QED BY <1>1, <1>2, <1>3, <1>4, <1>5, <2>2, <2>3 DEF Kept
<1>6. CASE op.range.count # 1
  <2>1. /\ done' = done + 1 /\ f' = 0 /\ result' = result /\ host' = host /\ op' = op
        /\ pc' = IF done' = op.range.count THEN "read stop" ELSE "read bytes"
    BY <1>1, <1>6 DEF ReadGood
  <2> QED BY <1>1, <1>2, <1>3, <1>4, <1>6, <2>1 DEF Kept
<1> QED BY <1>5, <1>6

LEMMA ReadBadStep ==
    ASSUME TypeInv, ReadBad
    PROVE  /\ pc = "read bytes" /\ Kept
           /\ card'.block = card.block
           /\ \/ card.mode \in Sectors /\ card'.mode = NextPlace /\ lost' = lost + 1 /\ spoilt' = spoilt
              \/ card' = card /\ lost' = lost /\ spoilt'
              \/ card.mode \notin Sectors /\ card' = card /\ lost' = lost /\ spoilt' = spoilt
           /\ answer' = answer /\ buffer' = buffer /\ try' = 0
           /\ done' = done \/ Errs
           /\ \/ op.range.count = 1 /\ pc' = "read" /\ f' = f + 1 /\ result' = result /\ ~host'.selected
              \/ op.range.count = 1 /\ Errs /\ ~(f + 1 < 3)
              \/ op.range.count # 1 /\ pc' = "read stop" /\ f' = f + 1 /\ result' = result /\ host' = host
<1> USE TypeParts
<1>1. pc = "read bytes" /\ pc \in ReadSteps \cup WriteSteps
  BY DEF ReadBad, ReadSteps
<1>2. /\ card'.block = card.block /\ card'.kind = card.kind
      /\ card'.power = card.power /\ card'.crcOn = card.crcOn
      /\ \/ card.mode \in Sectors /\ card'.mode = NextPlace /\ lost' = lost + 1 /\ spoilt' = spoilt
         \/ card' = card /\ lost' = lost /\ spoilt'
         \/ card.mode \notin Sectors /\ card' = card /\ lost' = lost /\ spoilt' = spoilt
  <2>1. CASE OnCard /\ lost' = lost + 1 /\ card' = AfterBlock(card) /\ UNCHANGED spoilt
    BY <1>1, <2>1, BlockPassed DEF NextPlace, OnCard
  <2>2. CASE spoilt' = TRUE /\ UNCHANGED <<lost, card>>
    BY <2>2
  <2>3. CASE ~OnCard /\ UNCHANGED <<lost, card, spoilt>>
    BY <2>3 DEF OnCard
  <2> QED BY <2>1, <2>2, <2>3 DEF ReadBad
<1>3. answer' = answer /\ buffer' = buffer /\ try' = 0
  BY <1>1 DEF ReadBad, TypeInv, Counts, data
<1>4. CASE op.range.count = 1
  <2>1. Retry(f + 1, "read", host)
    BY <1>4 DEF ReadBad
  <2>2. PICK attempts : attempts = f + 1
    OBVIOUS
  <2>3. Retry(attempts, "read", host)
    BY <2>1, <2>2
  <2>4. /\ op' = op
        /\ host'.type = host.type /\ host'.supports_crc = host.supports_crc /\ host'.noinit = host.noinit
        /\ \/ /\ pc' = "read" /\ f' = attempts /\ done' = done /\ result' = result
              /\ ~host'.selected
           \/ Errs /\ ~(attempts < 3)
    BY <2>3, RetryKept
  <2> QED BY <1>1, <1>2, <1>3, <1>4, <2>2, <2>4 DEF Kept
<1>5. CASE op.range.count # 1
  <2>1. pc' = "read stop" /\ f' = f + 1 /\ result' = result /\ host' = host /\ op' = op /\ done' = done
    BY <1>5 DEF ReadBad
  <2> QED BY <1>1, <1>2, <1>3, <1>5, <2>1 DEF Kept
<1> QED BY <1>4, <1>5

\* What comes of a block that was sent, whatever is made of the answer.
Delivered ==
    /\ \/ BlockTaken
       \/ BlockNotTaken
       \/ ~OnCard /\ answer' = 31 /\ spoilt' = spoilt /\ card' = card
    /\ buffer' = buffer /\ try' = 0 /\ lost' = lost
    /\ spoilt' \in {spoilt, TRUE}

LEMMA WriteSingleStep ==
    ASSUME TypeInv, WriteSingle
    PROVE  /\ pc = "write bytes" /\ op.range.count = 1 /\ Kept /\ Delivered
           /\ \/ /\ pc' = "write" /\ f' = f + 1 /\ done' = done /\ result' = result /\ ~host'.selected
                 /\ BlockNotTaken
              \/ Errs /\ answer' # 5
              \/ pc' = "write status" /\ f' = f /\ done' = done /\ result' = result /\ ~host'.selected
<1>1. pc = "write bytes" /\ op.range.count = 1 /\ WriteBytes
  BY DEF WriteSingle
<1>2. /\ Delivered
      /\ card'.kind = card.kind /\ card'.power = card.power /\ card'.crcOn = card.crcOn
      /\ Repeated(answer') => BlockNotTaken
  BY <1>1, BlockWritten DEF Delivered
<1>3. CASE Repeated(answer')
  <2>1. Retry(f + 1, "write", host)
    BY <1>3, Answered DEF WriteSingle
  <2>2. PICK attempts : attempts = f + 1
    OBVIOUS
  <2>3. Retry(attempts, "write", host)
    BY <2>1, <2>2
  <2>4. /\ op' = op
        /\ host'.type = host.type /\ host'.supports_crc = host.supports_crc /\ host'.noinit = host.noinit
        /\ \/ /\ pc' = "write" /\ f' = attempts /\ done' = done /\ result' = result
              /\ ~host'.selected
           \/ Errs /\ ~(attempts < 3)
    BY <2>3, RetryKept
  <2>5. answer' # 5
    BY <1>3 DEF Repeated
  <2> QED BY <1>1, <1>2, <1>3, <2>2, <2>4, <2>5 DEF Kept
<1>4. CASE Refused(answer')
  <2>1. ErrorOf(host)
    BY <1>4, Answered DEF WriteSingle
  <2>2. /\ Errs /\ op' = op
        /\ host'.type = host.type /\ host'.supports_crc = host.supports_crc /\ host'.noinit = host.noinit
    BY <2>1, TypeParts, ErrorKept
  <2>3. answer' # 5
    BY <1>4 DEF Refused
  <2> QED BY <1>1, <1>2, <2>2, <2>3 DEF Kept
<1>5. CASE ~Repeated(answer') /\ ~Refused(answer')
  <2>1. Continue("write status", Deselected(host))
    BY <1>5 DEF WriteSingle
  <2>2. /\ pc' = "write status" /\ host' = Deselected(host)
        /\ op' = op /\ f' = f /\ done' = done /\ result' = result
    BY <2>1, ContinueKept
  <2>3. /\ ~host'.selected /\ host'.type = host.type /\ host'.supports_crc = host.supports_crc
        /\ host'.noinit = host.noinit
    BY <2>2, TypeParts, HostDeselected
  <2> QED BY <1>1, <1>2, <2>2, <2>3 DEF Kept
<1> QED BY <1>3, <1>4, <1>5

LEMMA WriteMultipleStep ==
    ASSUME TypeInv, WriteMultiple
    PROVE  /\ pc = "write bytes" /\ op.range.count # 1 /\ Kept /\ Delivered
           /\ host' = host /\ result' = result
           /\ \/ /\ answer' = 5 /\ done' = done + 1 /\ f' = 0
                 /\ pc' = IF done' = op.range.count THEN "write wait" ELSE "write bytes"
              \/ answer' # 5 /\ done' = done /\ f' = f + 1 /\ pc' = "write wait"
<1>1. pc = "write bytes" /\ op.range.count > 1 /\ WriteBytes /\ op' = op /\ host' = host /\ result' = result
  BY DEF WriteMultiple
<1>2. op.range.count # 1
  <2>1. pc \in ReadSteps \cup WriteSteps
    BY <1>1 DEF WriteSteps
  <2>2. op.range.count \in Nat
    BY <2>1, CallTyped
  <2>3. \A n \in Nat : n > 1 => n # 1
    OBVIOUS
  <2> QED BY <1>1, <2>2, <2>3
<1>3. /\ Delivered
      /\ card'.kind = card.kind /\ card'.power = card.power /\ card'.crcOn = card.crcOn
  BY <1>1, BlockWritten DEF Delivered
<1>4. \/ /\ answer' = 5 /\ done' = done + 1 /\ f' = 0
         /\ pc' = IF done' = op.range.count THEN "write wait" ELSE "write bytes"
      \/ answer' # 5 /\ done' = done /\ f' = f + 1 /\ pc' = "write wait"
  BY <1>1 DEF WriteMultiple, Accepted
<1> QED BY <1>1, <1>2, <1>3, <1>4 DEF Kept

LEMMA WriteWaitStep ==
    ASSUME TypeInv, WriteWait
    PROVE  /\ pc = "write wait" /\ Kept /\ card'.block = card.block
           /\ buffer' = buffer /\ answer' = answer /\ try' = 0 /\ lost' = lost
           /\ spoilt' \in {spoilt, TRUE}
           /\ \/ /\ pc' = "write status" /\ done = op.range.count /\ done' = done /\ f' = f /\ result' = result
                 /\ ~host'.selected
                 /\ (card'.mode = Tran /\ spoilt' = spoilt) \/ (card' = card /\ spoilt')
              \/ /\ pc' = "write stop" /\ done # op.range.count /\ done' = done /\ f' = f /\ result' = result
                 /\ card' = card /\ host' = host /\ spoilt' = spoilt
              \/ Errs /\ spoilt' /\ card' = card
<1> USE TypeParts
<1>1. pc = "write wait" /\ buffer' = buffer /\ answer' = answer /\ try' = 0 /\ lost' = lost /\ spoilt' \in {spoilt, TRUE}
  BY DEF WriteWait, data, TypeInv, Counts
<1>2. /\ ~Deselected(host).selected /\ Deselected(host).type = host.type
      /\ Deselected(host).supports_crc = host.supports_crc /\ Deselected(host).noinit = host.noinit
  BY HostDeselected
<1>3. CASE /\ done = op.range.count /\ Continue("write status", Deselected(host))
           /\ \/ card' = [card EXCEPT !.mode = Tran] /\ UNCHANGED spoilt
              \/ spoilt' = TRUE /\ UNCHANGED card
  <2>1. /\ card'.kind = card.kind /\ card'.power = card.power /\ card'.crcOn = card.crcOn
        /\ card'.block = card.block
        /\ (card'.mode = Tran /\ spoilt' = spoilt) \/ (card' = card /\ spoilt')
    BY <1>3 DEF CardStates
  <2>2. /\ pc' = "write status" /\ host' = Deselected(host) /\ op' = op
        /\ f' = f /\ done' = done /\ result' = result
    BY <1>3, ContinueKept
  <2> QED BY <1>1, <1>2, <1>3, <2>1, <2>2 DEF Kept
<1>4. CASE done # op.range.count /\ Continue("write stop", host) /\ UNCHANGED <<card, spoilt>>
  <2>1. pc' = "write stop" /\ host' = host /\ op' = op /\ f' = f /\ done' = done /\ result' = result
    BY <1>4, ContinueKept
  <2> QED BY <1>1, <1>4, <2>1 DEF Kept
<1>5. CASE ErrorOf(host) /\ spoilt' = TRUE /\ UNCHANGED card
  <2>1. /\ Errs /\ op' = op
        /\ host'.type = host.type /\ host'.supports_crc = host.supports_crc /\ host'.noinit = host.noinit
    BY <1>5, ErrorKept
  <2> QED BY <1>1, <1>5, <2>1 DEF Kept
<1> QED BY <1>3, <1>4, <1>5 DEF WriteWait

LEMMA SyncStep ==
    ASSUME TypeInv, ff_sd_ioctl_Sync
    PROVE  pc = "sync" /\ Kept /\ card' = card /\ pc' = "idle" /\ ~host'.selected
<1>1. /\ ~Deselected(host).selected /\ Deselected(host).type = host.type
      /\ Deselected(host).supports_crc = host.supports_crc /\ Deselected(host).noinit = host.noinit
  BY TypeParts, HostDeselected
<1>2. pc' = "idle" /\ host' = Deselected(host) /\ op' = op
  BY DEF ff_sd_ioctl_Sync, Return
<1>3. pc = "sync" /\ card' = card
  BY DEF ff_sd_ioctl_Sync
<1> QED BY <1>1, <1>2, <1>3 DEF Kept

-----------------------------------------------------------------------------
\* The steps of ff_sd_initialize.
GivesUpCard == pc' = "idle" /\ result' = "STA_NOINIT"

\* A command whose answer decides whether the card is one the driver knows.
Walked(cmd, arg, wanted, next) ==
    /\ Settled /\ op' = op /\ card'.kind = card.kind
    /\ host'.supports_crc = host.supports_crc /\ host'.noinit \in {host.noinit, TRUE}
    /\ \/ /\ pc' = next /\ result' = result
          /\ Token(cmd, arg) = wanted /\ card' = Executed(cmd, arg) /\ lost' = lost /\ spoilt' = spoilt
       \/ /\ GivesUpCard /\ Failed(cmd, arg, wanted)
          /\ card' = card \/ card' = Executed(cmd, arg)

LEMMA UnknownKept ==
    ASSUME NEW h \in HostStates, Unknown(h)
    PROVE  GivesUpCard /\ op' = op /\ host'.supports_crc = h.supports_crc /\ host'.noinit = h.noinit
<1>1. Deselected(h) \in HostStates /\ Deselected(h).supports_crc = h.supports_crc /\ Deselected(h).noinit = h.noinit
  BY HostDeselected
<1>2. /\ [Deselected(h) EXCEPT !.type = "CARD_UNKNOWN"].supports_crc = h.supports_crc
      /\ [Deselected(h) EXCEPT !.type = "CARD_UNKNOWN"].noinit = h.noinit
  BY <1>1, HostTyped
<1> QED BY <1>2 DEF Unknown, Return, GivesUpCard

\* What comes of a command that begins no transfer.
LEMMA CamePlain ==
    ASSUME NEW cmd, NEW arg, NEW wanted, NEW token, NEW h, Came(cmd, arg, wanted, token, h), cmd \notin Transfers
    PROVE  \/ /\ token = wanted /\ Token(cmd, arg) = wanted /\ card' = Executed(cmd, arg)
              /\ lost' = lost /\ spoilt' = spoilt
           \/ /\ token # wanted /\ Failed(cmd, arg, wanted)
              /\ card' = card \/ card' = Executed(cmd, arg)
BY DEF Came, Misread

LEMMA Walking ==
    ASSUME TypeInv, NEW cmd, NEW arg, NEW wanted, NEW next, NEW token, NEW h, NEW g \in HostStates,
           Came(cmd, arg, wanted, token, h), cmd \notin Transfers,
           g.supports_crc = h.supports_crc, g.noinit = h.noinit,
           IF token = wanted THEN Continue(next, g) ELSE Unknown(h)
    PROVE  Walked(cmd, arg, wanted, next) /\ (pc' = next /\ pc' # "idle" => host' = g)
<1>1. /\ Settled /\ h \in HostStates /\ card'.kind = card.kind
      /\ h.supports_crc = host.supports_crc /\ h.noinit \in {host.noinit, TRUE}
  BY DEF Came
<1>2. CASE token = wanted
  <2>1. pc' = next /\ host' = g /\ op' = op /\ result' = result
    BY <1>2, ContinueKept
  <2>2. Token(cmd, arg) = wanted /\ card' = Executed(cmd, arg) /\ lost' = lost /\ spoilt' = spoilt
    BY <1>2, CamePlain
  <2> QED BY <1>1, <2>1, <2>2 DEF Walked
<1>3. CASE token # wanted
  <2>1. GivesUpCard /\ op' = op /\ host'.supports_crc = h.supports_crc /\ host'.noinit = h.noinit
    BY <1>1, <1>3, UnknownKept
  <2>2. /\ Failed(cmd, arg, wanted)
        /\ card' = card \/ card' = Executed(cmd, arg)
    BY <1>3, CamePlain
  <2>3. pc' = "idle"
    BY <2>1 DEF GivesUpCard
  <2> QED BY <1>1, <2>1, <2>2, <2>3 DEF Walked
<1> QED BY <1>2, <1>3

\* The steps of ff_sd_initialize in turn.
LEMMA ProbedStep ==
    ASSUME TypeInv, NEW step, NEW cmd, NEW arg, NEW wanted \in {0, 1}, NEW next, next # "idle",
           Probed(step, cmd, arg, wanted, next), ~Repeats(cmd, arg)
    PROVE  /\ pc = step /\ Walked(cmd, arg, wanted, next)
           /\ pc' = next => host'.type = host.type
<1>1. PICK token, h : /\ Transacted(cmd, arg, token, h)
                      /\ IF token = wanted THEN Continue(next, h) ELSE Unknown(h)
  BY DEF Probed
<1>2. Came(cmd, arg, wanted, token, h) /\ cmd \notin Transfers
  BY <1>1, OneWanted, TransactionsCame
<1>3. h \in HostStates /\ h.type = host.type
  BY <1>2 DEF Came
<1>4. Walked(cmd, arg, wanted, next) /\ (pc' = next /\ pc' # "idle" => host' = h)
  BY <1>1, <1>2, <1>3, Walking
<1> QED BY <1>3, <1>4 DEF Probed

LEMMA InitIdleStep ==
    ASSUME TypeInv, InitIdle, ~Repeats("GO_IDLE_STATE", 0)
    PROVE  pc = "init" /\ Walked("GO_IDLE_STATE", 0, 1, "init crc")
<1>1. PICK token, h : /\ Replied("GO_IDLE_STATE", 0, token, h)
                      /\ IF token = 1 THEN Continue("init crc", Deselected(h)) ELSE Unknown(h)
  BY InitIdleForm
<1>2. Came("GO_IDLE_STATE", 0, 1, token, h)
  BY <1>1, OneWanted, RepliesCame
<1>3. h \in HostStates
  BY <1>2 DEF Came
<1>4. /\ Deselected(h) \in HostStates
      /\ Deselected(h).supports_crc = h.supports_crc /\ Deselected(h).noinit = h.noinit
  BY <1>3, HostDeselected
<1>5. "GO_IDLE_STATE" \notin Transfers
  BY DEF Transfers
<1> QED BY <1>1, <1>2, <1>4, <1>5, Walking, InitIdleForm

LEMMA InitCrcStep ==
    ASSUME TypeInv, InitCrc, ~Repeats("CRC_ON_OFF", 1)
    PROVE  /\ pc = "init crc" /\ Settled /\ op' = op /\ card'.kind = card.kind
           /\ host'.noinit \in {host.noinit, TRUE}
           /\ \/ /\ pc' = "init if" /\ result' = result
                 /\ Token("CRC_ON_OFF", 1) \in {1, 5} /\ card' = Executed("CRC_ON_OFF", 1)
                 /\ lost' = lost /\ spoilt' = spoilt
                 /\ host'.supports_crc = IF Token("CRC_ON_OFF", 1) = 5 THEN FALSE ELSE host.supports_crc
              \/ /\ GivesUpCard /\ Failed("CRC_ON_OFF", 1, 1) /\ Failed("CRC_ON_OFF", 1, 5)
                 /\ host'.supports_crc = host.supports_crc
                 /\ card' = card \/ card' = Executed("CRC_ON_OFF", 1)
<1>1. PICK token, h : /\ Transacted("CRC_ON_OFF", 1, token, h)
                      /\ \/ token = 1 /\ Continue("init if", h)
                         \/ token = 5 /\ Continue("init if", [h EXCEPT !.supports_crc = FALSE])
                         \/ token \notin {1, 5} /\ Unknown(h)
  BY InitCrcForm
<1>2. Came("CRC_ON_OFF", 1, 1, token, h) /\ Came("CRC_ON_OFF", 1, 5, token, h) /\ "CRC_ON_OFF" \notin Transfers
  <2>1. 1 \notin {NoToken, CrcError} /\ 5 \notin {NoToken, CrcError}
    BY DEF NoToken, CrcError
  <2> QED BY <1>1, <2>1, TransactionsCame
<1>3. /\ pc = "init crc" /\ Settled /\ card'.kind = card.kind /\ h \in HostStates
      /\ h.noinit \in {host.noinit, TRUE} /\ h.supports_crc = host.supports_crc
  BY <1>2, InitCrcForm DEF Came
<1>4. CASE token = 1 /\ Continue("init if", h)
  <2>1. pc' = "init if" /\ host' = h /\ op' = op /\ result' = result
    BY <1>4, ContinueKept
  <2>2. Token("CRC_ON_OFF", 1) = 1 /\ card' = Executed("CRC_ON_OFF", 1) /\ lost' = lost /\ spoilt' = spoilt
    BY <1>2, <1>4, CamePlain
  <2>3. Token("CRC_ON_OFF", 1) \in {1, 5} /\ Token("CRC_ON_OFF", 1) # 5
    BY <2>2
  <2> QED BY <1>3, <2>1, <2>2, <2>3
<1>5. CASE token = 5 /\ Continue("init if", [h EXCEPT !.supports_crc = FALSE])
  <2>1. pc' = "init if" /\ host' = [h EXCEPT !.supports_crc = FALSE] /\ op' = op /\ result' = result
    BY <1>5, ContinueKept
  <2>2. Token("CRC_ON_OFF", 1) = 5 /\ card' = Executed("CRC_ON_OFF", 1) /\ lost' = lost /\ spoilt' = spoilt
    BY <1>2, <1>5, CamePlain
  <2>3. host'.noinit = h.noinit /\ host'.supports_crc = FALSE
    BY <1>3, <2>1 DEF HostStates
  <2> QED BY <1>3, <2>1, <2>2, <2>3
<1>6. CASE token \notin {1, 5} /\ Unknown(h)
  <2>1. GivesUpCard /\ op' = op /\ host'.supports_crc = h.supports_crc /\ host'.noinit = h.noinit
    BY <1>3, <1>6, UnknownKept
  <2>2. Failed("CRC_ON_OFF", 1, 1) /\ Failed("CRC_ON_OFF", 1, 5)
    BY <1>2, <1>6, CamePlain
  <2>3. card' = card \/ card' = Executed("CRC_ON_OFF", 1)
    BY <1>2, CamePlain
  <2> QED BY <1>3, <2>1, <2>2, <2>3
<1> QED BY <1>1, <1>4, <1>5, <1>6

LEMMA InitIfStep ==
    ASSUME TypeInv, InitIf, ~Repeats("SEND_IF_COND", 0)
    PROVE  /\ pc = "init if" /\ Settled /\ op' = op /\ card'.kind = card.kind /\ result' = result
           /\ host'.supports_crc = host.supports_crc /\ host'.noinit \in {host.noinit, TRUE}
           /\ card' = card \/ card' = Executed("SEND_IF_COND", 0)
           /\ \/ pc' = "init ocr 2" /\ Token("SEND_IF_COND", 0) = 1 /\ card' = Executed("SEND_IF_COND", 0)
              \/ pc' = "init ocr 1" /\ Failed("SEND_IF_COND", 0, 1)
<1>1. PICK token, h : /\ Transacted("SEND_IF_COND", 0, token, h)
                      /\ Continue(IF token = 1 THEN "init ocr 2" ELSE "init ocr 1", h)
  BY InitIfForm
<1>2. Came("SEND_IF_COND", 0, 1, token, h) /\ "SEND_IF_COND" \notin Transfers
  BY <1>1, OneWanted, TransactionsCame
<1>3. /\ pc = "init if" /\ Settled /\ card'.kind = card.kind /\ h \in HostStates
      /\ h.noinit \in {host.noinit, TRUE} /\ h.supports_crc = host.supports_crc
  BY <1>2, InitIfForm DEF Came
<1>6. card' = card \/ card' = Executed("SEND_IF_COND", 0)
  BY <1>2, CamePlain
<1>4. CASE token = 1
  <2>1. pc' = "init ocr 2" /\ host' = h /\ op' = op /\ result' = result
    BY <1>1, <1>4, ContinueKept
  <2>2. Token("SEND_IF_COND", 0) = 1 /\ card' = Executed("SEND_IF_COND", 0)
    BY <1>2, <1>4, CamePlain
  <2> QED BY <1>3, <1>6, <2>1, <2>2
<1>5. CASE token # 1
  <2>1. pc' = "init ocr 1" /\ host' = h /\ op' = op /\ result' = result
    BY <1>1, <1>5, ContinueKept
  <2>2. Failed("SEND_IF_COND", 0, 1)
    BY <1>2, <1>5, CamePlain
  <2> QED BY <1>3, <1>6, <2>1, <2>2
<1> QED BY <1>4, <1>5

LEMMA InitCcsStep ==
    ASSUME TypeInv, InitCcs, ~Repeats("READ_OCR", 0)
    PROVE  /\ pc = "init ccs" /\ Walked("READ_OCR", 0, 0, "init detect")
           /\ pc' = "init detect" => host'.type = IF card.kind.v = "SDHC" THEN "CARD_SDHC" ELSE "CARD_SD"
<1>1. PICK token, h :
        /\ Transacted("READ_OCR", 0, token, h)
        /\ IF token = 0
           THEN Continue("init detect",
                  [h EXCEPT !.type = IF card.kind.v = "SDHC" THEN "CARD_SDHC" ELSE "CARD_SD"])
           ELSE Unknown(h)
  BY InitCcsForm
<1>2. Came("READ_OCR", 0, 0, token, h) /\ "READ_OCR" \notin Transfers
  BY <1>1, OneWanted, TransactionsCame
<1>3. h \in HostStates
  BY <1>2 DEF Came
<1>4. PICK t : t = IF card.kind.v = "SDHC" THEN "CARD_SDHC" ELSE "CARD_SD"
  OBVIOUS
<1>5. t \in {"CARD_NONE", "CARD_UNKNOWN", "CARD_SD", "CARD_SDHC", "CARD_MMC"}
  BY <1>4
<1>6. PICK g : g = [h EXCEPT !.type = t]
  OBVIOUS
<1>7. /\ g \in HostStates /\ g.type = t
      /\ g.supports_crc = h.supports_crc /\ g.noinit = h.noinit
  BY <1>3, <1>5, <1>6, HostTyped
<1>8. IF token = 0 THEN Continue("init detect", g) ELSE Unknown(h)
  BY <1>1, <1>4, <1>6
<1>9. Walked("READ_OCR", 0, 0, "init detect") /\ (pc' = "init detect" /\ pc' # "idle" => host' = g)
  BY <1>2, <1>7, <1>8, Walking
<1> QED BY <1>4, <1>7, <1>9, InitCcsForm

LEMMA InitOp1Step ==
    ASSUME TypeInv, InitOp1, ~Repeats("APP_OP_COND", 0)
    PROVE  /\ pc = "init op 1" /\ Settled /\ op' = op /\ card'.kind = card.kind /\ result' = result
           /\ host'.supports_crc = host.supports_crc /\ host'.noinit \in {host.noinit, TRUE}
           /\ \/ /\ pc' = "init detect" /\ host'.type = "CARD_SD"
                 /\ Token("APP_OP_COND", 0) = 0 /\ card' = Executed("APP_OP_COND", 0)
                 /\ lost' = lost /\ spoilt' = spoilt
              \/ /\ pc' = "init op mmc" /\ Failed("APP_OP_COND", 0, 0)
                 /\ card' = card \/ card' = Executed("APP_OP_COND", 0)
<1>1. PICK token, h :
        /\ Transacted("APP_OP_COND", 0, token, h)
        /\ IF token = 0 THEN Continue("init detect", [h EXCEPT !.type = "CARD_SD"])
           ELSE Continue("init op mmc", h)
  BY InitOp1Form
<1>2. Came("APP_OP_COND", 0, 0, token, h) /\ "APP_OP_COND" \notin Transfers
  BY <1>1, OneWanted, TransactionsCame
<1>3. /\ pc = "init op 1" /\ Settled /\ card'.kind = card.kind /\ h \in HostStates
      /\ h.noinit \in {host.noinit, TRUE} /\ h.supports_crc = host.supports_crc
  BY <1>2, InitOp1Form DEF Came
<1>4. CASE token = 0
  <2>1. pc' = "init detect" /\ host' = [h EXCEPT !.type = "CARD_SD"] /\ op' = op /\ result' = result
    BY <1>1, <1>4, ContinueKept
  <2>2. /\ Token("APP_OP_COND", 0) = 0 /\ card' = Executed("APP_OP_COND", 0)
        /\ lost' = lost /\ spoilt' = spoilt
    BY <1>2, <1>4, CamePlain
  <2>3. host'.type = "CARD_SD" /\ host'.noinit = h.noinit /\ host'.supports_crc = h.supports_crc
    BY <1>3, <2>1, HostTyped
  <2> QED BY <1>3, <2>1, <2>2, <2>3
<1>5. CASE token # 0
  <2>1. pc' = "init op mmc" /\ host' = h /\ op' = op /\ result' = result
    BY <1>1, <1>5, ContinueKept
  <2>2. /\ Failed("APP_OP_COND", 0, 0)
        /\ card' = card \/ card' = Executed("APP_OP_COND", 0)
    BY <1>2, <1>5, CamePlain
  <2> QED BY <1>3, <2>1, <2>2
<1> QED BY <1>4, <1>5

LEMMA InitMmcStep ==
    ASSUME TypeInv, InitMmc, ~Repeats("SEND_OP_COND", 0)
    PROVE  /\ pc = "init op mmc" /\ Settled /\ op' = op /\ card'.kind = card.kind /\ result' = result
           /\ host'.supports_crc = host.supports_crc /\ host'.noinit \in {host.noinit, TRUE}
           /\ \/ /\ pc' = "init detect" /\ host'.type = "CARD_MMC"
                 /\ Token("SEND_OP_COND", 0) = 0 /\ card' = Executed("SEND_OP_COND", 0)
                 /\ lost' = lost /\ spoilt' = spoilt
              \/ /\ pc' = "init op mmc" /\ Failed("SEND_OP_COND", 0, 0)
                 /\ card' = card \/ card' = Executed("SEND_OP_COND", 0)
<1>1. PICK token, h :
        /\ Transacted("SEND_OP_COND", 0, token, h)
        /\ IF token = 0 THEN Continue("init detect", [h EXCEPT !.type = "CARD_MMC"])
           ELSE Continue("init op mmc", h)
  BY InitMmcForm
<1>2. Came("SEND_OP_COND", 0, 0, token, h) /\ "SEND_OP_COND" \notin Transfers
  BY <1>1, OneWanted, TransactionsCame
<1>3. /\ pc = "init op mmc" /\ Settled /\ card'.kind = card.kind /\ h \in HostStates
      /\ h.noinit \in {host.noinit, TRUE} /\ h.supports_crc = host.supports_crc
  BY <1>2, InitMmcForm DEF Came
<1>4. CASE token = 0
  <2>1. pc' = "init detect" /\ host' = [h EXCEPT !.type = "CARD_MMC"] /\ op' = op /\ result' = result
    BY <1>1, <1>4, ContinueKept
  <2>2. /\ Token("SEND_OP_COND", 0) = 0 /\ card' = Executed("SEND_OP_COND", 0)
        /\ lost' = lost /\ spoilt' = spoilt
    BY <1>2, <1>4, CamePlain
  <2>3. host'.type = "CARD_MMC" /\ host'.noinit = h.noinit /\ host'.supports_crc = h.supports_crc
    BY <1>3, <2>1, HostTyped
  <2> QED BY <1>3, <2>1, <2>2, <2>3
<1>5. CASE token # 0
  <2>1. pc' = "init op mmc" /\ host' = h /\ op' = op /\ result' = result
    BY <1>1, <1>5, ContinueKept
  <2>2. /\ Failed("SEND_OP_COND", 0, 0)
        /\ card' = card \/ card' = Executed("SEND_OP_COND", 0)
    BY <1>2, <1>5, CamePlain
  <2> QED BY <1>3, <2>1, <2>2
<1> QED BY <1>4, <1>5

\* The steps of ff_sd_initialize that no command decides.
LEMMA InitOddStep ==
    ASSUME TypeInv, InitVoltage \/ InitSlow
    PROVE  /\ op' = op /\ card' = card /\ spoilt'
           /\ host'.supports_crc = host.supports_crc /\ host'.noinit = host.noinit
           /\ \/ pc' = "idle"
              \/ pc = "init op 1" /\ pc' = "init op mmc"
<1>1. host \in HostStates
  BY TypeParts
<1>2. CASE Unknown(host) /\ spoilt' = TRUE /\ card' = card
  BY <1>1, <1>2, UnknownKept DEF GivesUpCard
<1>3. CASE pc = "init op 1" /\ Continue("init op mmc", host) /\ spoilt' = TRUE /\ card' = card
  BY <1>3, ContinueKept
<1> QED BY <1>2, <1>3 DEF InitVoltage, InitSlow

LEMMA InitSkipStep ==
    ASSUME NEW next, Continue(next, host), UNCHANGED <<data, try, card, faults>>
    PROVE  /\ pc' = next /\ host' = host /\ card' = card /\ op' = op /\ result' = result
           /\ try' = try /\ lost' = lost /\ spoilt' = spoilt
BY DEF Continue, call, faults

LEMMA InitSectorsStep ==
    ASSUME TypeInv, InitSectors, ~Repeats("SEND_CSD", 0)
    PROVE  /\ pc = "init csd" /\ Settled /\ op' = op /\ card'.kind = card.kind
           /\ pc' = "idle" /\ result' = "RES_OK"
           /\ ~host'.noinit /\ host'.supports_crc = host.supports_crc /\ host'.type = host.type
           /\ card' = card \/ card' = Executed("SEND_CSD", 0)
<1>1. PICK token, h : /\ Transacted("SEND_CSD", 0, token, h)
                      /\ Return("RES_OK", [h EXCEPT !.noinit = FALSE])
  BY InitSectorsForm
<1>2. Came("SEND_CSD", 0, 0, token, h) /\ "SEND_CSD" \notin Transfers
  BY <1>1, OneWanted, TransactionsCame
<1>3. /\ pc = "init csd" /\ Settled /\ card'.kind = card.kind /\ h \in HostStates
      /\ h.type = host.type /\ h.supports_crc = host.supports_crc
  BY <1>2, InitSectorsForm DEF Came
<1>6. card' = card \/ card' = Executed("SEND_CSD", 0)
  BY <1>2, CamePlain
<1>4. pc' = "idle" /\ result' = "RES_OK" /\ host' = [h EXCEPT !.noinit = FALSE] /\ op' = op
  BY <1>1 DEF Return
<1>5. ~host'.noinit /\ host'.supports_crc = h.supports_crc /\ host'.type = h.type
  BY <1>3, <1>4, HostFlagged
<1> QED BY <1>3, <1>4, <1>5, <1>6

-----------------------------------------------------------------------------
\* The card and its driver agree on the addresses.
LEMMA PlainCommands ==
    {"CRC_ON_OFF", "SEND_IF_COND", "READ_OCR", "SEND_CSD"}
        \cap (Transfers \cup {"GO_IDLE_STATE", "APP_OP_COND", "SEND_OP_COND"}) = {}
BY DEF Transfers

\* Commands that are no transfer leave the card's place or reset it.
LEMMA CommandMode ==
    ASSUME TypeInv, NEW cmd, NEW arg, cmd \notin Transfers,
           card' = card \/ card' = Executed(cmd, arg)
    PROVE  card'.mode \in {card.mode, Tran}
BY TypeParts, Effects

\* Only three commands change the power of the card.
LEMMA CommandPower ==
    ASSUME TypeInv, NEW cmd, NEW arg, cmd \notin {"GO_IDLE_STATE", "APP_OP_COND", "SEND_OP_COND"},
           card' = card \/ card' = Executed(cmd, arg)
    PROVE  card'.power = card.power
BY TypeParts, Effects

\* A step that changes neither card nor type keeps the agreement.
LEMMA AddressKept ==
    ASSUME TypeInv, AddressInv, Kept,
           pc \in ReadSteps \cup WriteSteps \cup {"status", "sync"},
           pc' = "idle" \/ (pc \in ReadSteps \cup WriteSteps /\ pc' \in ReadSteps \cup WriteSteps),
           card'.mode # Tran => card.power = "ready"
    PROVE  AddressInv'
<1>1. pc' \notin InitSteps
  BY DEF InitSteps, ReadSteps, WriteSteps
<1>2. /\ host'.type = host.type /\ card'.kind = card.kind /\ card'.power = card.power
      /\ ~host'.noinit => ~host.noinit
  BY TypeParts DEF Kept
<1>3. ASSUME card'.power = "ready", ~host'.noinit \/ pc' \in LateInit \cup ReadSteps \cup WriteSteps
      PROVE  Match'
  <2>1. pc' \notin LateInit
    BY <1>1 DEF LateInit, InitSteps
  <2>2. ~host.noinit \/ pc \in ReadSteps \cup WriteSteps
    BY <1>2, <1>3, <2>1 DEF ReadSteps, WriteSteps
  <2>3. Match
    BY <1>2, <1>3, <2>2 DEF AddressInv
  <2> QED BY <1>2, <2>3 DEF Match
<1> QED BY <1>1, <1>2, <1>3 DEF AddressInv, EarlyInit, InitSteps

LEMMA InitAddressKept ==
    ASSUME TypeInv, AddressInv, pc \in InitSteps,
           host'.noinit \in {host.noinit, TRUE},
           pc' \in InitSteps \cup {"idle"},
           card'.mode # Tran => card'.power = "ready",
           pc' \in EarlyInit \ OpSteps => card'.power # "ready",
           card'.power = "ready" /\ pc' \in {"init op 1", "init op mmc"} => card'.kind.v # "SDHC",
           card'.power = "ready" /\ pc' \in LateInit => Match'
    PROVE  AddressInv'
<1>1. host.noinit
  BY DEF AddressInv
<1>2. pc' \notin ReadSteps \cup WriteSteps
  BY DEF InitSteps, ReadSteps, WriteSteps
<1> QED BY <1>1, <1>2 DEF AddressInv

LEMMA Unmoved ==
    ASSUME AddressInv, pc' = pc, host' = host, card' = card
    PROVE  AddressInv'
BY DEF AddressInv, Match

\* What one command of ff_sd_initialize does to the power and the place of the card.
LEMMA WalkedCard ==
    ASSUME TypeInv, AddressInv, NEW cmd, NEW arg, NEW wanted, NEW next, Walked(cmd, arg, wanted, next),
           cmd \notin Transfers
    PROVE  /\ card'.mode \in {card.mode, Tran}
           /\ cmd \notin {"GO_IDLE_STATE", "APP_OP_COND", "SEND_OP_COND"} => card'.power = card.power
           /\ host'.noinit \in {host.noinit, TRUE}
           /\ pc' \in {next, "idle"}
           /\ card'.kind = card.kind
<1>1. card' = card \/ card' = Executed(cmd, arg)
  BY DEF Walked
<1> QED BY <1>1, CommandMode, CommandPower DEF Walked, GivesUpCard

\* A card with high capacity does not get ready without being asked for it.
LEMMA OpCondTokens ==
    /\ Token("APP_OP_COND", 0) = 0 => card.kind.v # "SDHC"
    /\ Token("SEND_OP_COND", 0) = 0 => card.kind.v # "SDHC"
<1>1. HCS # 0 /\ 1 # 0
  BY DEF HCS
<1>2. Token("APP_OP_COND", 0) = 0 => card.kind.v # "SDHC"
  BY <1>1 DEF Token, NoToken, CrcError, Transfers
<1>3. Token("SEND_OP_COND", 0) = 0 => card.kind.v # "SDHC"
  BY <1>1 DEF Token, NoToken, CrcError, Transfers
<1> QED BY <1>2, <1>3

LEMMA OpCondEffects ==
    ASSUME TypeInv, NEW cmd \in {"APP_OP_COND", "SEND_OP_COND"}, NEW arg
    PROVE  /\ Token(cmd, arg) = 0 => Executed(cmd, arg).power = "ready"
           /\ Token(cmd, arg) # 0 => Executed(cmd, arg).power = card.power
           /\ Token(cmd, arg) = 0 => card.mode = Tran
           /\ Executed(cmd, arg).mode = card.mode
<1>1. cmd \notin Transfers /\ cmd # "GO_IDLE_STATE" /\ cmd # "CRC_ON_OFF"
  BY DEF Transfers
<1>2. Executed(cmd, arg) = IF Token(cmd, arg) \notin {0, 1} THEN card
                           ELSE [card EXCEPT !.power = IF Token(cmd, arg) = 0 THEN "ready" ELSE card.power]
  BY <1>1 DEF Executed
<1>3. Token(cmd, arg) = 0 => card.mode = Tran
  BY DEF Token, NoToken, CrcError
<1>4. 0 \in {0, 1}
  OBVIOUS
<1> QED BY <1>2, <1>3, <1>4, TypeParts DEF CardStates

\* What a command that is sent again may have done to the power and the place of the card.
LEMMA RepeatMoved ==
    ASSUME TypeInv, AddressInv, NEW cmd, NEW arg, Repeats(cmd, arg)
    PROVE  /\ pc' = pc /\ host' = host /\ card'.kind = card.kind
           /\ card'.mode # Tran => card'.power = "ready"
           /\ cmd \notin {"APP_OP_COND", "SEND_OP_COND"} => card'.power \in {card.power, "idle"}
           /\ cmd \in {"APP_OP_COND", "SEND_OP_COND"} =>
                card'.power = card.power \/ (card'.power = "ready" /\ Token(cmd, arg) = 0)
<1>1. /\ pc' = pc /\ host' = host /\ card'.kind = card.kind
      /\ card' = card \/ card' = Executed(cmd, arg)
  BY TypeParts, Repeating
<1>2. card.mode # Tran => card.power = "ready"
  BY DEF AddressInv
<1>3. CASE card' = card
  BY <1>1, <1>2, <1>3
<1>4. CASE card' = Executed(cmd, arg) /\ cmd = "GO_IDLE_STATE"
  <2>1. Executed("GO_IDLE_STATE", arg) = [card EXCEPT !.power = "idle", !.crcOn = FALSE, !.mode = Tran]
    <3>1. Token("GO_IDLE_STATE", arg) = 1
      BY DEF Token
    <3> QED BY <3>1 DEF Executed, Transfers
  <2>2. card'.power = "idle" /\ card'.mode = Tran
    BY <1>4, <2>1, TypeParts DEF CardStates
  <2> QED BY <1>1, <1>4, <2>2
<1>5. CASE card' = Executed(cmd, arg) /\ cmd \in {"APP_OP_COND", "SEND_OP_COND"}
  BY <1>1, <1>2, <1>5, OpCondEffects
<1>6. CASE card' = Executed(cmd, arg) /\ cmd \in Transfers
  <2>1. cmd \notin {"GO_IDLE_STATE", "APP_OP_COND", "SEND_OP_COND"}
    BY <1>6 DEF Transfers
  <2>2. CASE Token(cmd, arg) = 0
    BY <1>1, <1>6, <2>1, <2>2, TypeParts, TransferStarted
  <2>3. CASE Token(cmd, arg) # 0
    BY <1>1, <1>2, <1>6, <2>1, <2>3, TypeParts, Effects
  <2> QED BY <2>2, <2>3
<1>7. CASE /\ card' = Executed(cmd, arg)
           /\ cmd \notin Transfers \cup {"GO_IDLE_STATE", "APP_OP_COND", "SEND_OP_COND"}
  BY <1>1, <1>2, <1>7, CommandMode, CommandPower
<1> QED BY <1>1, <1>3, <1>4, <1>5, <1>6, <1>7

\* A command of ff_sd_read, ff_sd_write and the other calls.
LEMMA RepeatAddress ==
    ASSUME TypeInv, AddressInv, NEW cmd, NEW arg, Repeats(cmd, arg),
           cmd \notin {"APP_OP_COND", "SEND_OP_COND"}
    PROVE  AddressInv'
<1>1. /\ pc' = pc /\ host' = host /\ card'.kind = card.kind
      /\ card'.mode # Tran => card'.power = "ready"
      /\ card'.power \in {card.power, "idle"}
  BY RepeatMoved
<1>2. card'.power = "ready" => card.power = "ready"
  BY <1>1
<1> QED BY <1>1, <1>2 DEF AddressInv, Match

\* The commands that make a card ready.
LEMMA RepeatOpCond ==
    ASSUME TypeInv, AddressInv, NEW cmd \in {"APP_OP_COND", "SEND_OP_COND"}, NEW arg, Repeats(cmd, arg),
           \/ pc = "init op 2"
           \/ pc \in {"init op 1", "init op mmc"} /\ (Token(cmd, arg) = 0 => card.kind.v # "SDHC")
    PROVE  AddressInv'
<1>1. /\ pc' = pc /\ host' = host /\ card'.kind = card.kind
      /\ card'.mode # Tran => card'.power = "ready"
      /\ card'.power = card.power \/ (card'.power = "ready" /\ Token(cmd, arg) = 0)
  BY RepeatMoved
<1>2. pc \in InitSteps /\ pc \in OpSteps /\ pc \notin LateInit \cup ReadSteps \cup WriteSteps
  BY DEF InitSteps, OpSteps, LateInit, ReadSteps, WriteSteps
<1>3. card'.power = "ready" /\ pc' \in {"init op 1", "init op mmc"} => card'.kind.v # "SDHC"
  BY <1>1 DEF AddressInv
<1>4. host.noinit
  BY <1>2 DEF AddressInv
<1> QED BY <1>1, <1>2, <1>3, <1>4 DEF AddressInv

\* Each step of ff_sd_initialize keeps the agreement, whichever answers were lost.
LEMMA InitAddress ==
    ASSUME TypeInv, AddressInv, ff_sd_initialize
    PROVE  AddressInv'
<1>a. card.mode # Tran => card.power = "ready"
  BY DEF AddressInv
<1>b. pc \in EarlyInit \ OpSteps => card.power # "ready"
  BY DEF AddressInv
<1>c. pc \in LateInit /\ card.power = "ready" => Match
  BY DEF AddressInv
\* A step after which the card is not yet recognised, by a command that leaves its power alone.
<1>1. ASSUME NEW step \in EarlyInit \ OpSteps, NEW cmd, NEW arg, NEW wanted, NEW next \in EarlyInit,
             pc = step, Walked(cmd, arg, wanted, next),
             cmd \notin Transfers \cup {"GO_IDLE_STATE", "APP_OP_COND", "SEND_OP_COND"}
      PROVE  AddressInv'
  <2>1. card'.mode \in {card.mode, Tran} /\ card'.power = card.power /\ host'.noinit \in {host.noinit, TRUE}
    BY <1>1, WalkedCard
  <2>2. pc' \in EarlyInit \cup {"idle"} /\ pc \in EarlyInit /\ pc \in InitSteps
    BY <1>1, WalkedCard DEF EarlyInit
  <2>3. /\ pc' \notin LateInit /\ pc' \in InitSteps \cup {"idle"}
        /\ pc \in EarlyInit \ OpSteps /\ card.power # "ready"
    BY <1>1, <1>b, <2>2 DEF EarlyInit, LateInit
  <2> QED BY <1>a, <2>1, <2>2, <2>3, InitAddressKept
\* A step after the type of the card was set.
<1>2. ASSUME NEW step \in LateInit, NEW cmd, NEW arg, NEW wanted, NEW next \in LateInit,
             pc = step, Walked(cmd, arg, wanted, next), pc' = next => host'.type = host.type,
             cmd \notin Transfers \cup {"GO_IDLE_STATE", "APP_OP_COND", "SEND_OP_COND"}
      PROVE  AddressInv'
  <2>1. /\ card'.mode \in {card.mode, Tran} /\ card'.power = card.power
        /\ host'.noinit \in {host.noinit, TRUE} /\ card'.kind = card.kind
        /\ pc' \in {next, "idle"}
    BY <1>2, WalkedCard
  <2>2. pc \in LateInit /\ pc \in InitSteps /\ pc' \in InitSteps \cup {"idle"} /\ pc' \notin EarlyInit
    BY <1>2, <2>1 DEF EarlyInit, LateInit, InitSteps
  <2>3. card'.power = "ready" /\ pc' \in LateInit => Match'
    <3>1. "idle" \notin LateInit
      BY DEF LateInit
    <3> QED BY <1>2, <1>c, <2>1, <2>2, <3>1 DEF Match
  <2>4. pc' \notin {"init op 1", "init op mmc"}
    BY <1>2, <2>1 DEF LateInit
  <2> QED BY <1>a, <2>1, <2>2, <2>3, <2>4, InitAddressKept
<1>3. CASE InitIdle /\ ~Repeats("GO_IDLE_STATE", 0)
  <2>1. pc = "init" /\ Walked("GO_IDLE_STATE", 0, 1, "init crc")
    BY <1>3, InitIdleStep
  <2>2. /\ card'.mode \in {card.mode, Tran} /\ host'.noinit \in {host.noinit, TRUE}
        /\ pc' \in {"init crc", "idle"}
    BY <2>1, WalkedCard DEF Transfers
  <2>3. \/ card' = card /\ pc' = "idle"
        \/ card'.power = "idle" /\ card'.mode = Tran
    <3>1. Executed("GO_IDLE_STATE", 0) = [card EXCEPT !.power = "idle", !.crcOn = FALSE, !.mode = Tran]
      BY GoIdleToken DEF Executed, Transfers
    <3>2. Executed("GO_IDLE_STATE", 0).power = "idle" /\ Executed("GO_IDLE_STATE", 0).mode = Tran
      BY <3>1, TypeParts DEF CardStates
    <3> QED BY <2>1, <3>2 DEF Walked, GivesUpCard
  <2>4. pc \in InitSteps /\ pc' \in InitSteps \cup {"idle"} /\ pc' \notin LateInit /\ "idle" \notin EarlyInit
    BY <2>1, <2>2 DEF InitSteps, EarlyInit, LateInit
  <2> QED BY <1>a, <2>2, <2>3, <2>4, InitAddressKept
<1>4. CASE InitCrc /\ ~Repeats("CRC_ON_OFF", 1)
  <2>1. /\ pc = "init crc" /\ host'.noinit \in {host.noinit, TRUE} /\ pc' \in {"init if", "idle"}
        /\ card' = card \/ card' = Executed("CRC_ON_OFF", 1)
    BY <1>4, InitCrcStep DEF GivesUpCard
  <2>2. card'.mode \in {card.mode, Tran} /\ card'.power = card.power
    BY <2>1, PlainCommands, CommandMode, CommandPower
  <2>3. /\ pc \in EarlyInit \ OpSteps /\ pc \in InitSteps
        /\ pc' \in InitSteps \cup {"idle"} /\ pc' \notin LateInit
    BY <2>1 DEF InitSteps, EarlyInit, LateInit, OpSteps
  <2> QED BY <1>a, <1>b, <2>1, <2>2, <2>3, InitAddressKept
<1>5. CASE InitIf /\ ~Repeats("SEND_IF_COND", 0)
  <2>1. /\ pc = "init if" /\ host'.noinit \in {host.noinit, TRUE} /\ pc' \in {"init ocr 1", "init ocr 2"}
        /\ card' = card \/ card' = Executed("SEND_IF_COND", 0)
    BY <1>5, InitIfStep
  <2>2. card'.mode \in {card.mode, Tran} /\ card'.power = card.power
    BY <2>1, PlainCommands, CommandMode, CommandPower
  <2>3. /\ pc \in EarlyInit \ OpSteps /\ pc \in InitSteps
        /\ pc' \in InitSteps \cup {"idle"} /\ pc' \notin LateInit
    BY <2>1 DEF InitSteps, EarlyInit, LateInit, OpSteps
  <2> QED BY <1>a, <1>b, <2>1, <2>2, <2>3, InitAddressKept
<1>6. CASE InitVoltage \/ InitSlow
  <2>1. /\ card' = card /\ host'.noinit = host.noinit
        /\ pc' = "idle" \/ (pc = "init op 1" /\ pc' = "init op mmc")
    BY <1>6, InitOddStep
  <2>4. card.power = "ready" /\ pc = "init op 1" => card.kind.v # "SDHC"
    BY DEF AddressInv
  <2>5. "idle" \notin EarlyInit /\ "init op mmc" \in OpSteps /\ card'.kind = card.kind
    BY <2>1 DEF EarlyInit, InitSteps, OpSteps
  <2>2. pc \in EarlyInit /\ pc \in InitSteps
    BY <1>6 DEF InitVoltage, InitSlow, InitSteps, EarlyInit, LateInit
  <2>3. pc' \in InitSteps \cup {"idle"} /\ pc' \notin LateInit
    BY <2>1 DEF InitSteps, LateInit
  <2> QED BY <1>a, <2>1, <2>2, <2>3, <2>4, <2>5, InitAddressKept
<1>7. CASE (InitOcr2 \/ InitOcr1) /\ ~Repeats("READ_OCR", 0)
  <2>1. \/ pc = "init ocr 2" /\ Walked("READ_OCR", 0, 1, "init op 2")
        \/ pc = "init ocr 1" /\ Walked("READ_OCR", 0, 1, "init op 1")
    BY <1>7, ProbeForms, ProbedStep
  <2>2. "READ_OCR" \notin Transfers \cup {"GO_IDLE_STATE", "APP_OP_COND", "SEND_OP_COND"}
    BY DEF Transfers
  <2>3. {"init op 1", "init op 2"} \subseteq EarlyInit /\ {"init ocr 1", "init ocr 2"} \subseteq EarlyInit \ OpSteps
    BY DEF EarlyInit, InitSteps, LateInit, OpSteps
  <2> QED BY <1>1, <2>1, <2>2, <2>3
<1>8. CASE InitOp2 /\ ~Repeats("APP_OP_COND", HCS)
  <2>1. pc = "init op 2" /\ Walked("APP_OP_COND", HCS, 0, "init ccs")
    BY <1>8, ProbeForms, ProbedStep
  <2>2. /\ card'.mode \in {card.mode, Tran} /\ host'.noinit \in {host.noinit, TRUE}
        /\ pc' \in {"init ccs", "idle"}
    BY <2>1, WalkedCard DEF Transfers
  <2>3. pc \in EarlyInit /\ pc \in InitSteps /\ pc' \in InitSteps \cup {"idle"} /\ pc' \notin LateInit /\ pc' \notin EarlyInit
    BY <2>1, <2>2 DEF InitSteps, EarlyInit, LateInit
  <2>4. /\ Executed("APP_OP_COND", HCS).mode = card.mode
        /\ Executed("APP_OP_COND", HCS).power \in {card.power, "ready"}
    BY OpCondEffects
  <2>5. card'.mode # Tran => card'.power = "ready"
    BY <1>a, <2>1, <2>4 DEF Walked
  <2> QED BY <2>2, <2>3, <2>5, InitAddressKept
<1>9. CASE InitCcs /\ ~Repeats("READ_OCR", 0)
  <2>1. /\ pc = "init ccs" /\ Walked("READ_OCR", 0, 0, "init detect")
        /\ pc' = "init detect" => host'.type = IF card.kind.v = "SDHC" THEN "CARD_SDHC" ELSE "CARD_SD"
    BY <1>9, InitCcsStep
  <2>2. /\ card'.mode \in {card.mode, Tran} /\ host'.noinit \in {host.noinit, TRUE}
        /\ pc' \in {"init detect", "idle"} /\ card'.kind = card.kind /\ card'.power = card.power
    BY <2>1, PlainCommands, WalkedCard
  <2>3. pc \in InitSteps /\ pc' \in InitSteps \cup {"idle"} /\ pc' \notin EarlyInit /\ "idle" \notin LateInit
    BY <2>1, <2>2 DEF InitSteps, EarlyInit, LateInit
  <2>4. card'.power = "ready" /\ pc' \in LateInit => Match'
    BY <2>1, <2>2, <2>3 DEF Match
  <2> QED BY <1>a, <2>2, <2>3, <2>4, InitAddressKept
<1>10. CASE InitOp1 /\ ~Repeats("APP_OP_COND", 0)
  <2>1. /\ pc = "init op 1" /\ card'.kind = card.kind /\ host'.noinit \in {host.noinit, TRUE}
        /\ \/ /\ pc' = "init detect" /\ host'.type = "CARD_SD"
              /\ Token("APP_OP_COND", 0) = 0 /\ card' = Executed("APP_OP_COND", 0)
           \/ /\ pc' = "init op mmc"
              /\ card' = card \/ card' = Executed("APP_OP_COND", 0)
    BY <1>10, InitOp1Step
  <2>2. /\ pc \in InitSteps /\ pc' \in InitSteps \cup {"idle"}
        /\ "init detect" \notin EarlyInit /\ "init op mmc" \notin LateInit /\ "init op mmc" \in OpSteps
    BY <2>1 DEF InitSteps, EarlyInit, LateInit, OpSteps
  <2>3. /\ Executed("APP_OP_COND", 0).mode = card.mode
        /\ Executed("APP_OP_COND", 0).power = card.power
           \/ (Executed("APP_OP_COND", 0).power = "ready" /\ Token("APP_OP_COND", 0) = 0)
    BY OpCondEffects
  <2>4. card'.mode # Tran => card'.power = "ready"
    BY <1>a, <2>1, <2>3
  <2>5. card.power = "ready" => card.kind.v # "SDHC"
    BY <2>1 DEF AddressInv
  <2>6. card'.power = "ready" => card'.kind.v # "SDHC"
    BY <2>1, <2>3, <2>5, OpCondTokens
  <2>7. pc' \in LateInit => Match'
    BY <2>1, <2>2, OpCondTokens DEF Match
  <2> QED BY <2>1, <2>2, <2>4, <2>6, <2>7, InitAddressKept
<1>11. CASE InitMmc /\ ~Repeats("SEND_OP_COND", 0)
  <2>1. /\ pc = "init op mmc" /\ card'.kind = card.kind /\ host'.noinit \in {host.noinit, TRUE}
        /\ \/ /\ pc' = "init detect" /\ host'.type = "CARD_MMC"
              /\ Token("SEND_OP_COND", 0) = 0 /\ card' = Executed("SEND_OP_COND", 0)
           \/ /\ pc' = "init op mmc"
              /\ card' = card \/ card' = Executed("SEND_OP_COND", 0)
    BY <1>11, InitMmcStep
  <2>2. /\ pc \in InitSteps /\ pc' \in InitSteps \cup {"idle"}
        /\ "init detect" \notin EarlyInit /\ "init op mmc" \notin LateInit /\ "init op mmc" \in OpSteps
    BY <2>1 DEF InitSteps, EarlyInit, LateInit, OpSteps
  <2>3. /\ Executed("SEND_OP_COND", 0).mode = card.mode
        /\ Executed("SEND_OP_COND", 0).power = card.power
           \/ (Executed("SEND_OP_COND", 0).power = "ready" /\ Token("SEND_OP_COND", 0) = 0)
    BY OpCondEffects
  <2>4. card'.mode # Tran => card'.power = "ready"
    BY <1>a, <2>1, <2>3
  <2>5. card.power = "ready" => card.kind.v # "SDHC"
    BY <2>1 DEF AddressInv
  <2>6. card'.power = "ready" => card'.kind.v # "SDHC"
    BY <2>1, <2>3, <2>5, OpCondTokens
  <2>7. pc' \in LateInit => Match'
    BY <2>1, <2>2, OpCondTokens DEF Match
  <2> QED BY <2>1, <2>2, <2>4, <2>6, <2>7, InitAddressKept
\* Neither the step for cards that are not sent the command.
<1>12. ASSUME NEW step \in LateInit, NEW next \in LateInit, pc = step, Continue(next, host),
              UNCHANGED <<data, try, card, faults>>
       PROVE  AddressInv'
  <2>1. pc' = next /\ host' = host /\ card' = card
    BY <1>12, InitSkipStep
  <2>2. pc \in LateInit /\ pc \in InitSteps /\ pc' \in InitSteps \cup {"idle"} /\ pc' \notin EarlyInit
    BY <1>12, <2>1 DEF InitSteps, EarlyInit, LateInit
  <2>3. card'.power = "ready" => Match'
    BY <1>c, <2>1, <2>2 DEF Match
  <2>4. pc' \notin {"init op 1", "init op mmc"}
    BY <1>12, <2>1 DEF LateInit
  <2> QED BY <1>a, <2>1, <2>2, <2>3, <2>4, InitAddressKept
<1>13. CASE InitDetect /\ ~Repeats("APP_CLR_CARD_DETECT", 0)
  <2>1. \/ pc = "init detect" /\ Continue("init block", host) /\ UNCHANGED <<data, try, card, faults>>
        \/ Probed("init detect", "APP_CLR_CARD_DETECT", 0, 0, "init block")
    BY <1>13, ProbeForms
  <2>2. "init detect" \in LateInit /\ "init block" \in LateInit
        /\ "APP_CLR_CARD_DETECT" \notin Transfers \cup {"GO_IDLE_STATE", "APP_OP_COND", "SEND_OP_COND"}
    BY DEF LateInit, Transfers
  <2>3. CASE Probed("init detect", "APP_CLR_CARD_DETECT", 0, 0, "init block")
    <3>1. /\ pc = "init detect" /\ Walked("APP_CLR_CARD_DETECT", 0, 0, "init block")
          /\ pc' = "init block" => host'.type = host.type
      BY <1>13, <2>3, ProbedStep
    <3> QED BY <1>2, <2>2, <3>1
  <2> QED BY <1>12, <2>1, <2>2, <2>3
<1>14. CASE InitBlockLen /\ ~Repeats("SET_BLOCKLEN", 0)
  <2>1. \/ pc = "init block" /\ Continue("init csd", host) /\ UNCHANGED <<data, try, card, faults>>
        \/ Probed("init block", "SET_BLOCKLEN", 0, 0, "init csd")
    BY <1>14, ProbeForms
  <2>2. "init block" \in LateInit /\ "init csd" \in LateInit
        /\ "SET_BLOCKLEN" \notin Transfers \cup {"GO_IDLE_STATE", "APP_OP_COND", "SEND_OP_COND"}
    BY DEF LateInit, Transfers
  <2>3. CASE Probed("init block", "SET_BLOCKLEN", 0, 0, "init csd")
    <3>1. /\ pc = "init block" /\ Walked("SET_BLOCKLEN", 0, 0, "init csd")
          /\ pc' = "init csd" => host'.type = host.type
      BY <1>14, <2>3, ProbedStep
    <3> QED BY <1>2, <2>2, <3>1
  <2> QED BY <1>12, <2>1, <2>2, <2>3
<1>15. CASE InitSectors /\ ~Repeats("SEND_CSD", 0)
  <2>1. /\ pc = "init csd" /\ card'.kind = card.kind /\ pc' = "idle" /\ host'.type = host.type
        /\ card' = card \/ card' = Executed("SEND_CSD", 0)
    BY <1>15, InitSectorsStep
  <2>2. card'.mode \in {card.mode, Tran} /\ card'.power = card.power
    BY <2>1, PlainCommands, CommandMode, CommandPower
  <2>3. "idle" \notin InitSteps /\ pc \in LateInit
    BY <2>1 DEF InitSteps, LateInit
  <2>4. card'.power = "ready" => Match'
    BY <1>c, <2>1, <2>2, <2>3 DEF Match
  <2> QED BY <1>a, <2>1, <2>2, <2>3, <2>4 DEF AddressInv, EarlyInit
\* A command that is sent again.
<1>16. CASE \/ Repeats("GO_IDLE_STATE", 0) \/ Repeats("CRC_ON_OFF", 1) \/ Repeats("SEND_IF_COND", 0)
            \/ Repeats("READ_OCR", 0) \/ Repeats("APP_CLR_CARD_DETECT", 0) \/ Repeats("SET_BLOCKLEN", 0)
            \/ Repeats("SEND_CSD", 0)
  BY <1>16, RepeatAddress
<1>17. CASE InitOp2 /\ Repeats("APP_OP_COND", HCS)
  BY <1>17, ProbeForms, RepeatOpCond DEF Probed
<1>18. CASE InitOp1 /\ Repeats("APP_OP_COND", 0)
  BY <1>18, InitOp1Form, OpCondTokens, RepeatOpCond
<1>19. CASE InitMmc /\ Repeats("SEND_OP_COND", 0)
  BY <1>19, InitMmcForm, OpCondTokens, RepeatOpCond
<1> QED BY <1>3, <1>4, <1>5, <1>6, <1>7, <1>8, <1>9, <1>10, <1>11, <1>13, <1>14, <1>15,
           <1>16, <1>17, <1>18, <1>19 DEF ff_sd_initialize

LEMMA ReadAddress ==
    ASSUME TypeInv, AddressInv, ReadSelect \/ ReadCommand \/ ReadGood \/ ReadBad \/ ReadStop
    PROVE  AddressInv'
<1>a. card.mode # Tran => card.power = "ready"
  BY DEF AddressInv
<1>b. {"read", "read command", "read bytes", "read stop"} = ReadSteps
  BY DEF ReadSteps
<1>d. card.mode \in Sectors => card.mode # Tran
  BY DEF Sectors, Tran
<1>c. ReadTransfer \notin {"APP_OP_COND", "SEND_OP_COND"}
  BY DEF ReadTransfer, TransferCommand
<1>1. CASE Repeats(ReadTransfer, Place) \/ Repeats("STOP_TRANSMISSION", 0)
  BY <1>1, <1>c, RepeatAddress
<1>2. CASE ReadSelect
  BY <1>2, <1>a, <1>b, SelectStep, AddressKept DEF ReadSelect, Errs
<1>3. CASE ReadCommand /\ ~Repeats(ReadTransfer, Place)
  BY <1>3, <1>a, <1>b, ReadCommandStep, AddressKept DEF Errs
<1>4. CASE ReadGood
  <2>1. card.power = "ready"
    BY <1>4, <1>a, <1>d, ReadGoodStep
  <2> QED BY <1>4, <2>1, <1>b, ReadGoodStep, AddressKept DEF Errs
<1>5. CASE ReadBad
  <2>1. card'.mode # Tran => card.power = "ready"
    BY <1>5, <1>a, <1>d, ReadBadStep
  <2> QED BY <1>5, <2>1, <1>b, ReadBadStep, AddressKept DEF Errs
<1>6. CASE ReadStop /\ ~Repeats("STOP_TRANSMISSION", 0)
  BY <1>6, <1>a, <1>b, ReadStopStep, AddressKept DEF Errs
<1> QED BY <1>1, <1>2, <1>3, <1>4, <1>5, <1>6

\* Only a card in a transfer takes a block.
LEMMA DeliveredMode ==
    ASSUME Delivered, card'.mode # Tran
    PROVE  card.mode # Tran
BY DEF Delivered, BlockTaken, BlockNotTaken, OnCard, InTransfer, Sectors, Tran

LEMMA WriteAddress ==
    ASSUME TypeInv, AddressInv,
           \/ WriteErase \/ WriteSelect \/ WriteCommand \/ WriteSingle \/ WriteMultiple
           \/ WriteWait \/ WriteStop \/ WriteNumber \/ WriteStatus
    PROVE  AddressInv'
<1>a. card.mode # Tran => card.power = "ready"
  BY DEF AddressInv
<1>b. {"write erase", "write", "write command", "write bytes", "write wait", "write stop",
       "write number", "write status"} = WriteSteps
  BY DEF WriteSteps
<1>c. WriteTransfer \notin {"APP_OP_COND", "SEND_OP_COND"}
  BY DEF WriteTransfer, TransferCommand
<1>1. CASE \/ Repeats("SET_WR_BLK_ERASE_COUNT", 0) \/ Repeats(WriteTransfer, Place)
           \/ Repeats("STOP_TRANSMISSION", 0) \/ Repeats("SEND_NUM_WR_BLOCKS", 0) \/ Repeats("SEND_STATUS", 0)
  BY <1>1, <1>c, RepeatAddress
<1>2. CASE WriteErase /\ ~Repeats("SET_WR_BLK_ERASE_COUNT", 0)
  BY <1>2, <1>a, <1>b, WriteEraseStep, AddressKept DEF Errs
<1>3. CASE WriteSelect
  BY <1>3, <1>a, <1>b, SelectStep, AddressKept DEF WriteSelect, Errs
<1>4. CASE WriteCommand /\ ~Repeats(WriteTransfer, Place)
  BY <1>4, <1>a, <1>b, WriteCommandStep, AddressKept DEF Errs
<1>5. CASE WriteSingle
  <2>1. card'.mode # Tran => card.mode # Tran
    BY <1>5, WriteSingleStep, DeliveredMode
  <2> QED BY <1>5, <1>a, <1>b, <2>1, WriteSingleStep, AddressKept DEF Errs
<1>6. CASE WriteMultiple
  <2>1. card'.mode # Tran => card.mode # Tran
    BY <1>6, WriteMultipleStep, DeliveredMode
  <2> QED BY <1>6, <1>a, <1>b, <2>1, WriteMultipleStep, AddressKept
<1>7. CASE WriteWait
  BY <1>7, <1>a, <1>b, WriteWaitStep, AddressKept DEF Errs
<1>8. CASE WriteStop /\ ~Repeats("STOP_TRANSMISSION", 0)
  BY <1>8, <1>a, <1>b, WriteStopStep, AddressKept DEF Errs
<1>9. CASE WriteNumber /\ ~Repeats("SEND_NUM_WR_BLOCKS", 0)
  BY <1>9, <1>a, <1>b, WriteNumberStep, AddressKept DEF Errs
<1>10. CASE WriteStatus /\ ~Repeats("SEND_STATUS", 0)
  BY <1>10, <1>a, <1>b, WriteStatusStep, AddressKept DEF Errs
<1> QED BY <1>1, <1>2, <1>3, <1>4, <1>5, <1>6, <1>7, <1>8, <1>9, <1>10

LEMMA OtherAddress ==
    ASSUME TypeInv, AddressInv, ff_sd_status \/ ff_sd_ioctl_Sync \/ EndBegin
    PROVE  AddressInv'
<1>a. card.mode # Tran => card.power = "ready"
  BY DEF AddressInv
<1>1. CASE Repeats("SEND_STATUS", 0) \/ Repeats("GO_IDLE_STATE", 0)
  BY <1>1, RepeatAddress
<1>2. CASE ff_sd_status /\ ~Repeats("SEND_STATUS", 0)
  BY <1>2, <1>a, StatusStep, AddressKept
<1>3. CASE ff_sd_ioctl_Sync
  BY <1>3, <1>a, SyncStep, AddressKept
<1>4. CASE EndBegin /\ ~Repeats("GO_IDLE_STATE", 0)
  <2>1. /\ pc' = "idle" /\ host'.noinit
        /\ card' = card \/ (card'.power = "idle" /\ card'.mode = Tran)
    BY <1>4, EndStep DEF NewHost
  <2>2. "idle" \notin InitSteps \cup LateInit \cup ReadSteps \cup WriteSteps
    BY DEF InitSteps, LateInit, ReadSteps, WriteSteps
  <2> QED BY <1>a, <2>1, <2>2 DEF AddressInv, EarlyInit
<1> QED BY <1>1, <1>2, <1>3, <1>4

LEMMA CallAddress ==
    ASSUME TypeInv, AddressInv, Called \/ Swap
    PROVE  AddressInv'
<1>1. CASE Called
  <2>1. /\ <<op'.kind, pc'>> \in Calls /\ host' = host /\ card' = card
        /\ op'.kind = "init" => host.noinit
        /\ op'.kind \in {"read", "write"} => ~host.noinit
    BY <1>1, Calling
  <2>2. pc' \notin EarlyInit \cup LateInit
    BY <2>1 DEF Calls, EarlyInit, LateInit, InitSteps
  <2>3. /\ pc' \in InitSteps => op'.kind = "init"
        /\ pc' \in ReadSteps \cup WriteSteps => op'.kind \in {"read", "write"}
        /\ pc' \notin {"init op 1", "init op mmc"}
    BY <2>1 DEF Calls, InitSteps, ReadSteps, WriteSteps
  <2> QED BY <2>1, <2>2, <2>3 DEF AddressInv, Match
<1>2. CASE Swap
  <2>1. pc' = pc /\ host' = host /\ card'.power = "off" /\ card'.mode = Tran
    BY <1>2, Swapping
  <2> QED BY <2>1 DEF AddressInv
<1> QED BY <1>1, <1>2

\* Every step keeps the agreement.
LEMMA NextAddress ==
    ASSUME TypeInv, AddressInv, [Next]_vars
    PROVE  AddressInv'
<1>1. CASE UNCHANGED vars
  BY <1>1, Stuttering, Unmoved
<1> QED BY <1>1, InitAddress, ReadAddress, WriteAddress, OtherAddress, CallAddress DEF Next

LEMMA InitialAddress ==
    ASSUME Init
    PROVE  AddressInv
<1>1. pc = "idle" /\ host.noinit /\ card.power = "off" /\ card.mode = Tran
  BY NewCardTyped DEF Init, NewHost
<1>2. "idle" \notin InitSteps
  BY DEF InitSteps
<1> QED BY <1>1, <1>2 DEF AddressInv, EarlyInit

\* A card in use has high capacity exactly when ardu_sdcard_t says so, in every step of
\* ff_sd_read and ff_sd_write.
THEOREM Addresses == Spec => []AddressInv
<1>1. Init => AddressInv
  BY InitialAddress
<1>2. TypeInv /\ AddressInv /\ [Next]_vars => AddressInv'
  BY NextAddress
<1> QED BY <1>1, <1>2, TypeInvariant, PTL DEF Spec

\* Whatever answers were lost while a card was recognised, and whatever card was
\* in the slot before: ff_sd_initialize calls a card CARD_SDHC exactly when it
\* has high capacity, so ff_sd_read and ff_sd_write address it in its own unit.
THEOREM AddressesAlwaysMatch == Spec => []AddressesMatch
<1>1. AddressInv => AddressesMatch
  BY DEF AddressInv, AddressesMatch, Match
<1> QED BY <1>1, Addresses, PTL

-----------------------------------------------------------------------------
\* The bus and the card's place in a transfer.
LEMMA Multiples ==
    /\ \A n \in Int : (512 * n) \div 512 = n
    /\ \A a, b \in Int : a + b \in Int /\ a + b + 1 = a + (b + 1)
    /\ \A n \in Nat : n \in Int
    /\ \A s, c, d \in Nat : d <= c /\ d # c => s + d \in s .. (s + c - 1)
OBVIOUS

\* The argument the driver computes names the sector it means.
LEMMA AddressedAs ==
    ASSUME Match, NEW s \in Int, NEW arg, arg = Argument(s)
    PROVE  Addressed(arg) = s
<1>1. CASE host.type = "CARD_SDHC"
  BY <1>1 DEF Match, Argument, Addressed
<1>2. CASE host.type # "CARD_SDHC"
  <2>1. arg = 512 * s /\ card.kind.v # "SDHC"
    BY <1>2 DEF Match, Argument
  <2> QED BY <2>1, Multiples DEF Addressed
<1> QED BY <1>1, <1>2

\* The card's place after a block is the sector of the next one.
LEMMA TransferGoesOn ==
    ASSUME TypeInv, pc \in ReadSteps \cup WriteSteps, op.range.count # 1, card.mode = op.range.sector + done
    PROVE  NextPlace = op.range.sector + (done + 1)
<1>1. op.range.sector \in Int /\ done \in Int
  BY CallTyped, Multiples
<1>2. NextPlace = op.range.sector + done + 1
  BY DEF NextPlace
<1> QED BY <1>1, <1>2, Multiples

\* A call that is intact after a step was intact before it.
LEMMA IntactBefore ==
    ASSUME Intact', host'.supports_crc = host.supports_crc, spoilt => spoilt'
    PROVE  Intact
<1>1. CASE host.supports_crc
  BY <1>1 DEF Intact
<1>2. CASE ~host.supports_crc
  <2>1. ~host'.supports_crc
    BY <1>2
  <2>2. ~spoilt'
    BY <2>1 DEF Intact
  <2> QED BY <2>2 DEF Intact
<1> QED BY <1>1, <1>2

LEMMA IntactKept ==
    ASSUME Intact', host'.supports_crc = host.supports_crc, spoilt' = spoilt \/ spoilt'
    PROVE  Intact
<1>1. CASE host.supports_crc
  BY <1>1 DEF Intact
<1>2. CASE ~host.supports_crc
  <2>1. ~spoilt'
    BY <1>2 DEF Intact
  <2>2. ~spoilt
    BY <2>1
  <2> QED BY <2>2 DEF Intact
<1> QED BY <1>1, <1>2

\* As long as nothing was damaged, a transfer stands at a sector asked for.
LEMMA InPlace ==
    ASSUME TypeInv, BusInv, pc \in {"read bytes", "write bytes"}, Intact, card.mode # Tran
    PROVE  /\ card.mode = op.range.sector + done /\ card.mode \in Sectors /\ card.mode \in Asked
           /\ done \in Nat /\ done # op.range.count
<1>1. card.mode = op.range.sector + done
  BY DEF BusInv
<1>2. pc \in ReadSteps \cup WriteSteps /\ Counted
  BY DEF ReadSteps, WriteSteps, Counted
<1>3. /\ op.range.sector \in Nat /\ op.range.count \in Nat /\ done \in Nat /\ NSectors \in Nat
      /\ done <= op.range.count /\ done # op.range.count /\ op.range.sector + op.range.count <= NSectors
  BY <1>2, CallTyped, CallCounted, CardAssumption
<1>4. PICK s, c, d : s = op.range.sector /\ c = op.range.count /\ d = done
  OBVIOUS
<1>5. s + d \in 0 .. (NSectors - 1) /\ s + d \in s .. (s + c - 1)
  BY <1>3, <1>4, Numbers, Multiples
<1> QED BY <1>1, <1>3, <1>4, <1>5 DEF Asked, Sectors

\* A block that is delivered does not make good what was damaged before.
LEMMA IntactDelivered ==
    ASSUME Delivered, \/ Intact' /\ host'.supports_crc = host.supports_crc
                      \/ host.supports_crc \/ ~spoilt'
    PROVE  Intact
<1>1. CASE host.supports_crc
  BY <1>1 DEF Intact
<1>2. CASE ~host.supports_crc
  <2>1. ~spoilt'
    BY <1>2 DEF Intact
  <2>2. spoilt' = spoilt \/ spoilt' = TRUE
    BY DEF Delivered
  <2> QED BY <2>1, <2>2 DEF Intact
<1> QED BY <1>1, <1>2

LEMMA Placed == \A place \in Sectors : place # Tran
BY DEF Sectors, Tran

\* The steps with the card selected.
Held == {"read command", "read bytes", "read stop", "write command", "write bytes", "write wait", "write stop"}

\* Calls return with the card released.
LEMMA BusReturned ==
    ASSUME pc' = "idle", ~host'.selected,
           result' = "RES_OK" /\ op'.kind = "read" => card'.mode = Tran,
           result' = "RES_OK" /\ op'.kind = "write" /\ ~spoilt' => card'.mode = Tran
    PROVE  BusInv'
BY DEF BusInv, Released, Returned

LEMMA BusErrs ==
    ASSUME Errs
    PROVE  BusInv'
BY BusReturned DEF Errs

LEMMA BusGoesOn ==
    ASSUME pc' # "idle", host'.selected => pc' \in Held,
           pc' = "write status" /\ ~spoilt' => card'.mode = Tran,
           pc' \in {"read bytes", "write bytes"} /\ Intact' /\ card'.mode # Tran => card'.mode = op'.range.sector + done'
    PROVE  BusInv'
BY DEF BusInv, Released, Returned, Held

\* A transfer starts at the first sector that is still to come.
LEMMA Commanded ==
    ASSUME TypeInv, AddressInv, pc \in ReadSteps \cup WriteSteps, card.power = "ready",
           NEW arg, arg = Argument(op.range.sector + done)
    PROVE  Addressed(arg) = op.range.sector + done
<1>1. Match
  BY DEF AddressInv
<1>2. PICK s : s = op.range.sector + done
  OBVIOUS
<1>4. s \in Int
  <2>1. op.range.sector \in Int /\ done \in Int
    BY CallTyped, Multiples
  <2> QED BY <1>2, <2>1, Multiples
<1>5. arg = Argument(s)
  BY <1>2
<1> QED BY <1>1, <1>2, <1>4, <1>5, AddressedAs

\* A command that is sent again before the transfer or after it.
LEMMA RepeatBus ==
    ASSUME TypeInv, BusInv, NEW cmd, NEW arg, Repeats(cmd, arg),
           pc \notin {"idle", "read bytes", "write bytes", "write status"}
    PROVE  BusInv'
<1>1. pc' = pc /\ host' = host
  BY TypeParts, Repeating
<1>2. host'.selected => pc' \in Held
  BY <1>1 DEF BusInv, Held
<1> QED BY <1>1, <1>2, BusGoesOn

\* Each step of ff_sd_read and ff_sd_write keeps the card's place.
LEMMA ReadBus ==
    ASSUME TypeInv, AddressInv, BusInv, ReadSelect \/ ReadCommand \/ ReadGood \/ ReadBad \/ ReadStop
    PROVE  BusInv'
<1>1. CASE \/ ReadCommand /\ Repeats(ReadTransfer, Place)
           \/ ReadStop /\ Repeats("STOP_TRANSMISSION", 0)
  <2>1. pc \in {"read command", "read stop"}
    BY <1>1, ReadCommandForm, ReadStopForm
  <2> QED BY <1>1, <2>1, RepeatBus
<1>2. CASE ReadSelect
  <2>1. pc' = "read command" \/ Errs
    BY <1>2, SelectStep DEF ReadSelect
  <2> QED BY <2>1, BusErrs, BusGoesOn DEF Held
<1>3. CASE ReadCommand /\ ~Repeats(ReadTransfer, Place)
  <2>1. PICK cmd, arg :
          /\ arg = Argument(op.range.sector + done) /\ pc = "read command" /\ op' = op
          /\ host'.supports_crc = host.supports_crc
          /\ \/ /\ pc' = "read bytes" /\ done' = done /\ card.power = "ready"
                /\ card'.mode = Addressed(arg) \/ (~host.supports_crc /\ spoilt')
             \/ Errs
    BY <1>3, ReadCommandStep DEF Kept, Place
  <2>2. CASE Errs
    BY <2>2, BusErrs
  <2>3. CASE /\ pc' = "read bytes" /\ done' = done /\ card.power = "ready"
             /\ card'.mode = Addressed(arg) \/ (~host.supports_crc /\ spoilt')
    <3>1. pc \in ReadSteps \cup WriteSteps
      BY <2>1 DEF ReadSteps
    <3>2. CASE card'.mode = Addressed(arg)
      <4>1. card'.mode = op'.range.sector + done'
        BY <2>1, <2>3, <3>1, <3>2, Commanded
      <4> QED BY <2>3, <4>1, BusGoesOn DEF Held
    <3>3. CASE ~host.supports_crc /\ spoilt'
      <4>1. ~Intact'
        BY <2>1, <3>3 DEF Intact
      <4> QED BY <2>3, <4>1, BusGoesOn DEF Held
    <3> QED BY <2>3, <3>2, <3>3
  <2> QED BY <2>1, <2>2, <2>3
<1>4. CASE ReadGood
  <2>1. /\ pc = "read bytes" /\ pc \in ReadSteps \cup WriteSteps /\ card.mode # Tran
        /\ host'.supports_crc = host.supports_crc
    BY <1>4, ReadGoodStep, Placed DEF ReadSteps, Kept
  <2>2. spoilt' = spoilt \/ spoilt'
    BY <1>4, ReadGoodStep
  <2>3. CASE op.range.count = 1
    <3>1. pc' = "idle" /\ ~host'.selected /\ card'.mode = Tran
      BY <1>4, <2>3, ReadGoodStep DEF NextPlace
    <3> QED BY <3>1, BusReturned
  <2>4. CASE op.range.count # 1
    <3>1. /\ done' = done + 1 /\ op' = op
          /\ pc' = IF done' = op.range.count THEN "read stop" ELSE "read bytes"
          /\ card'.mode = NextPlace
      BY <1>4, <2>4, ReadGoodStep DEF Kept
    <3>2. ASSUME Intact' PROVE card'.mode = op'.range.sector + done'
      <4>1. card.mode = op.range.sector + done
        BY <2>1, <2>2, <3>2, IntactKept, InPlace
      <4> QED BY <2>1, <2>4, <3>1, <4>1, TransferGoesOn
    <3> QED BY <3>1, <3>2, BusGoesOn DEF Held
  <2> QED BY <2>3, <2>4
<1>5. CASE ReadBad
  <2>1. \/ pc' = "read" /\ ~host'.selected
        \/ Errs
        \/ pc' = "read stop"
    BY <1>5, ReadBadStep
  <2> QED BY <2>1, BusErrs, BusGoesOn DEF Held
<1>6. CASE ReadStop /\ ~Repeats("STOP_TRANSMISSION", 0)
  <2>1. \/ Errs
        \/ pc' = "idle" /\ ~host'.selected /\ card'.mode = Tran
        \/ pc' = "read" /\ ~host'.selected
    BY <1>6, ReadStopStep
  <2> QED BY <2>1, BusErrs, BusReturned, BusGoesOn
<1> QED BY <1>1, <1>2, <1>3, <1>4, <1>5, <1>6

\* A single block that is delivered with no mishap ends the transfer.
LEMMA DeliveredSingle ==
    ASSUME TypeInv, BusInv, pc = "write bytes", op.range.count = 1, Delivered, ~spoilt'
    PROVE  card'.mode = Tran
<1>1. CASE BlockTaken
  BY <1>1 DEF BlockTaken
<1>2. CASE BlockNotTaken
  BY <1>2 DEF BlockNotTaken
<1>3. CASE ~OnCard /\ spoilt' = spoilt /\ card' = card
  <2>1. Intact
    BY <1>3 DEF Intact
  <2> QED BY <1>3, <2>1, InPlace DEF OnCard
<1> QED BY <1>1, <1>2, <1>3 DEF Delivered

LEMMA WriteBus ==
    ASSUME TypeInv, AddressInv, BusInv,
           \/ WriteErase \/ WriteSelect \/ WriteCommand \/ WriteSingle \/ WriteMultiple
           \/ WriteWait \/ WriteStop \/ WriteNumber \/ WriteStatus
    PROVE  BusInv'
<1>1. CASE \/ WriteErase /\ Repeats("SET_WR_BLK_ERASE_COUNT", 0)
           \/ WriteCommand /\ Repeats(WriteTransfer, Place)
           \/ WriteStop /\ Repeats("STOP_TRANSMISSION", 0)
           \/ WriteNumber /\ Repeats("SEND_NUM_WR_BLOCKS", 0)
  <2>1. pc \in {"write erase", "write command", "write stop", "write number"}
    BY <1>1, WriteEraseForm, WriteCommandForm, WriteStopForm, WriteNumberForm
  <2> QED BY <1>1, <2>1, RepeatBus
<1>0. CASE WriteStatus /\ Repeats("SEND_STATUS", 0)
  <2>3. "SEND_STATUS" \notin Special \cup Transfers \cup {"STOP_TRANSMISSION"}
    BY DEF Special, Transfers
  <2>1. pc = "write status" /\ pc' = pc /\ host' = host /\ spoilt' = spoilt /\ card'.mode \in {card.mode, Tran}
    BY <1>0, <2>3, WriteStatusForm, RepeatKept
  <2>2. ~host.selected /\ (~spoilt => card.mode = Tran)
    BY <2>1 DEF BusInv
  <2> QED BY <2>1, <2>2, BusGoesOn
<1>2. CASE WriteErase /\ ~Repeats("SET_WR_BLK_ERASE_COUNT", 0)
  <2>1. /\ pc = "write erase"
        /\ (pc' = "write" /\ (~host.selected => ~host'.selected)) \/ Errs
    BY <1>2, WriteEraseStep
  <2>2. ~host.selected
    BY <2>1 DEF BusInv
  <2> QED BY <2>1, <2>2, BusErrs, BusGoesOn
<1>3. CASE WriteSelect
  <2>1. pc' = "write command" \/ Errs
    BY <1>3, SelectStep DEF WriteSelect
  <2> QED BY <2>1, BusErrs, BusGoesOn DEF Held
<1>4. CASE WriteCommand /\ ~Repeats(WriteTransfer, Place)
  <2>1. PICK cmd, arg :
          /\ arg = Argument(op.range.sector + done) /\ pc = "write command" /\ op' = op
          /\ host'.supports_crc = host.supports_crc
          /\ \/ /\ pc' = "write bytes" /\ done' = done /\ card.power = "ready"
                /\ card'.mode = Addressed(arg) \/ (~host.supports_crc /\ spoilt')
             \/ Errs
    BY <1>4, WriteCommandStep DEF Kept, Place
  <2>2. CASE Errs
    BY <2>2, BusErrs
  <2>3. CASE /\ pc' = "write bytes" /\ done' = done /\ card.power = "ready"
             /\ card'.mode = Addressed(arg) \/ (~host.supports_crc /\ spoilt')
    <3>1. pc \in ReadSteps \cup WriteSteps
      BY <2>1 DEF WriteSteps
    <3>2. CASE card'.mode = Addressed(arg)
      <4>1. card'.mode = op'.range.sector + done'
        BY <2>1, <2>3, <3>1, <3>2, Commanded
      <4> QED BY <2>3, <4>1, BusGoesOn DEF Held
    <3>3. CASE ~host.supports_crc /\ spoilt'
      <4>1. ~Intact'
        BY <2>1, <3>3 DEF Intact
      <4> QED BY <2>3, <4>1, BusGoesOn DEF Held
    <3> QED BY <2>3, <3>2, <3>3
  <2> QED BY <2>1, <2>2, <2>3
<1>5. CASE WriteSingle
  <2>1. /\ pc = "write bytes" /\ op.range.count = 1 /\ Delivered
        /\ \/ pc' = "write" /\ ~host'.selected
           \/ Errs
           \/ pc' = "write status" /\ ~host'.selected
    BY <1>5, WriteSingleStep
  <2>2. ~spoilt' => card'.mode = Tran
    BY <2>1, DeliveredSingle
  <2> QED BY <2>1, <2>2, BusErrs, BusGoesOn
<1>6. CASE WriteMultiple
  <2>1. /\ pc = "write bytes" /\ op.range.count # 1 /\ pc \in ReadSteps \cup WriteSteps /\ Delivered
        /\ pc' \in {"write wait", "write bytes"} /\ op' = op /\ host'.supports_crc = host.supports_crc
        /\ pc' = "write bytes" => answer' = 5 /\ done' = done + 1
    BY <1>6, WriteMultipleStep DEF Kept, WriteSteps
  <2>2. ASSUME pc' = "write bytes", Intact', card'.mode # Tran
        PROVE  card'.mode = op'.range.sector + done'
    <3>1. OnCard /\ card'.mode = NextPlace
      BY <2>1, <2>2, Responses DEF Delivered, BlockTaken, BlockNotTaken, NextPlace
    <3>2. Intact
      BY <2>1, <2>2, IntactDelivered
    <3>3. card.mode = op.range.sector + done
      BY <2>1, <3>1, <3>2, InPlace, Placed DEF OnCard
    <3> QED BY <2>1, <2>2, <3>1, <3>3, TransferGoesOn
  <2> QED BY <2>1, <2>2, BusGoesOn DEF Held
<1>7. CASE WriteWait
  <2>1. \/ pc' = "write status" /\ (card'.mode = Tran \/ spoilt') /\ ~host'.selected
        \/ pc' = "write stop"
        \/ Errs
    BY <1>7, WriteWaitStep
  <2> QED BY <2>1, BusErrs, BusGoesOn DEF Held
<1>8. CASE WriteStop /\ ~Repeats("STOP_TRANSMISSION", 0)
  <2>1. (pc' = "write number" /\ ~host'.selected) \/ Errs
    BY <1>8, WriteStopStep
  <2> QED BY <2>1, BusErrs, BusGoesOn
<1>9. CASE WriteNumber /\ ~Repeats("SEND_NUM_WR_BLOCKS", 0)
  <2>1. (pc' = "write erase" /\ ~host'.selected) \/ Errs
    BY <1>9, WriteNumberStep
  <2> QED BY <2>1, BusErrs, BusGoesOn
<1>10. CASE WriteStatus /\ ~Repeats("SEND_STATUS", 0)
  <2>1. /\ pc = "write status" /\ card'.mode \in {card.mode, Tran}
        /\ op' = op /\ op.kind = "write"
        /\ \/ pc' = "idle" /\ (~host.selected => ~host'.selected) /\ spoilt' = spoilt
           \/ Errs
    BY <1>10, WriteStatusStep DEF Kept, TypeInv, CallSteps, WriteSteps
  <2>2. (~spoilt => card.mode = Tran) /\ ~host.selected
    BY <2>1 DEF BusInv
  <2> QED BY <2>1, <2>2, BusErrs, BusReturned
<1> QED BY <1>0, <1>1, <1>2, <1>3, <1>4, <1>5, <1>6, <1>7, <1>8, <1>9, <1>10

LEMMA OtherBus ==
    ASSUME TypeInv, BusInv, ff_sd_initialize \/ ff_sd_status \/ ff_sd_ioctl_Sync \/ EndBegin
    PROVE  BusInv'
<1>1. CASE \/ ff_sd_status /\ Repeats("SEND_STATUS", 0)
           \/ EndBegin /\ Repeats("GO_IDLE_STATE", 0)
  <2>1. pc \in {"status", "end"}
    BY <1>1, OtherForms
  <2> QED BY <1>1, <2>1, RepeatBus
<1>2. CASE ff_sd_initialize
  <2>1. /\ pc \in InitSteps /\ pc' \in InitSteps \cup {"idle"} /\ op' = op
        /\ ~host.selected => ~host'.selected
    BY <1>2, InitMoves DEF InitMove
  <2>2. ~host.selected /\ op.kind = "init"
    BY <2>1 DEF BusInv, InitSteps, TypeInv, CallSteps
  <2>3. CASE pc' = "idle"
    BY <2>1, <2>2, <2>3, BusReturned
  <2>4. CASE pc' \in InitSteps
    <3>1. pc' \notin {"idle", "write status", "read bytes", "write bytes"}
      BY <2>4 DEF InitSteps
    <3> QED BY <2>1, <2>2, <3>1, BusGoesOn
  <2> QED BY <2>1, <2>3, <2>4
<1>3. CASE ff_sd_status /\ ~Repeats("SEND_STATUS", 0)
  <2>1. pc = "status" /\ pc' = "idle" /\ (~host.selected => ~host'.selected) /\ op' = op
    BY <1>3, StatusStep DEF Kept
  <2>2. ~host.selected /\ op.kind = "status"
    BY <2>1 DEF BusInv, TypeInv, CallSteps
  <2> QED BY <2>1, <2>2, BusReturned
<1>4. CASE ff_sd_ioctl_Sync
  <2>1. pc = "sync" /\ pc' = "idle" /\ ~host'.selected /\ op' = op
    BY <1>4, SyncStep DEF Kept
  <2>2. op.kind = "sync"
    BY <2>1 DEF TypeInv, CallSteps
  <2> QED BY <2>1, <2>2, BusReturned
<1>5. CASE EndBegin /\ ~Repeats("GO_IDLE_STATE", 0)
  <2>1. pc' = "idle" /\ ~host'.selected /\ result' = "none"
    BY <1>5, EndStep DEF NewHost
  <2> QED BY <2>1, BusReturned
<1> QED BY <1>1, <1>2, <1>3, <1>4, <1>5

LEMMA CallBus ==
    ASSUME TypeInv, BusInv, Called \/ Swap
    PROVE  BusInv'
<1>1. CASE Called
  <2>1. pc = "idle" /\ <<op'.kind, pc'>> \in Calls /\ host' = host
    BY <1>1, Calling
  <2>2. ~host.selected /\ pc' \notin {"idle", "write status", "read bytes", "write bytes"}
    BY <2>1 DEF BusInv, Calls
  <2> QED BY <2>1, <2>2, BusGoesOn
<1>2. CASE Swap
  <2>1. /\ pc' = pc /\ host' = host /\ card'.mode = Tran
        /\ pc = "idle" => result' = "none"
    BY <1>2, Swapping
  <2>2. CASE pc = "idle"
    <3>1. ~host.selected
      BY <2>2 DEF BusInv
    <3> QED BY <2>1, <2>2, <3>1, BusReturned
  <2>3. CASE pc # "idle"
    <3>1. host'.selected => pc' \in Held
      BY <2>1 DEF BusInv, Held
    <3> QED BY <2>1, <2>3, <3>1, BusGoesOn
  <2> QED BY <2>2, <2>3
<1> QED BY <1>1, <1>2

\* Every step keeps the card's place and the bus.
LEMMA NextBus ==
    ASSUME TypeInv, AddressInv, BusInv, [Next]_vars
    PROVE  BusInv'
<1>1. CASE UNCHANGED vars
  <2>1. /\ pc' = pc /\ host' = host /\ card' = card /\ op' = op /\ done' = done /\ result' = result
        /\ spoilt' = spoilt
    BY <1>1, Stuttering
  <2> QED BY <2>1 DEF BusInv, Released, Returned, Intact
<1> QED BY <1>1, OtherBus, ReadBus, WriteBus, CallBus DEF Next

LEMMA InitialBus ==
    ASSUME Init
    PROVE  BusInv
<1>1. pc = "idle" /\ ~host.selected /\ result = "none"
  BY DEF Init, NewHost
<1> QED BY <1>1 DEF BusInv, Released, Returned

\* The card is selected only while ff_sd_read and ff_sd_write send and receive, and the
\* transfer stands at the sector of the next block as long as nothing was damaged.
THEOREM BusInvariant == Spec => []BusInv
<1>1. Init => BusInv
  BY InitialBus
<1>2. TypeInv /\ AddressInv /\ BusInv /\ [Next]_vars => BusInv'
  BY NextBus
<1> QED BY <1>1, <1>2, TypeInvariant, Addresses, PTL DEF Spec

\* After every call of the driver the chip select is up, so the bus is free for
\* the other devices; after a successful ff_sd_read the card waits for a command, and
\* after a successful ff_sd_write too if neither a block nor the stop token was lost.
THEOREM AlwaysReleased == Spec => []Released
<1>1. BusInv => Released
  BY DEF BusInv
<1> QED BY <1>1, BusInvariant, PTL

\* The sectors a step may change.
Honest ==
    \A s \in Sectors : card'.block[s] # card.block[s] /\ ~Swap /\ (host.supports_crc \/ ~spoilt') =>
        op.kind = "write" /\ s \in Asked

\* The one step that stores a block stores it in a sector asked for.
LEMMA NextHonest ==
    ASSUME TypeInv, BusInv, [Next]_vars
    PROVE  Honest
<1>1. CASE card'.block = card.block \/ Swap
  BY <1>1 DEF Honest
<1>2. CASE WriteSingle \/ WriteMultiple
  <2>1. pc = "write bytes" /\ Delivered /\ pc \in WriteSteps
    BY <1>2, WriteSingleStep, WriteMultipleStep DEF WriteSteps
  <2>2. op.kind = "write"
    BY <2>1 DEF TypeInv, CallSteps
  <2>3. CASE card'.block = card.block
    BY <1>1, <2>3
  <2>4. CASE card'.block # card.block
    <3>1. PICK block : OnCard /\ card'.block = [card.block EXCEPT ![card.mode] = block]
      BY <2>1, <2>4 DEF Delivered, BlockTaken, BlockNotTaken
    <3>2. ASSUME host.supports_crc \/ ~spoilt' PROVE card.mode \in Asked
      <4>1. Intact
        BY <2>1, <3>2, IntactDelivered
      <4> QED BY <2>1, <3>1, <4>1, InPlace, Placed DEF OnCard
    <3>3. \A s \in Sectors : s # card.mode => card'.block[s] = card.block[s]
      <4>1. card.block \in [Sectors -> Block]
        BY TypeParts DEF CardStates
      <4> QED BY <3>1, <4>1
    <3> QED BY <2>2, <3>2, <3>3 DEF Honest
  <2> QED BY <2>3, <2>4
<1>3. CASE (\E cmd, arg : Repeats(cmd, arg)) \/ UNCHANGED vars \/ Called
  BY <1>1, <1>3, TypeParts, Repeating, Stuttering, Calling
<1>4. CASE ff_sd_initialize
  BY <1>1, <1>4, InitMoves DEF InitMove
<1>5. CASE \/ ff_sd_status /\ ~Repeats("SEND_STATUS", 0)
           \/ EndBegin /\ ~Repeats("GO_IDLE_STATE", 0)
  BY <1>1, <1>5, StatusStep, EndStep DEF Settled
<1>6. CASE ff_sd_ioctl_Sync \/ ReadSelect \/ WriteSelect
  BY <1>1, <1>6, SyncStep, SelectStep DEF ReadSelect, WriteSelect
<1>7. CASE \/ ReadCommand /\ ~Repeats(ReadTransfer, Place)
           \/ ReadStop /\ ~Repeats("STOP_TRANSMISSION", 0)
  BY <1>1, <1>7, ReadCommandStep, ReadStopStep DEF Settled
<1>8. CASE ReadGood \/ ReadBad \/ WriteWait
  BY <1>1, <1>8, ReadGoodStep, ReadBadStep, WriteWaitStep
<1>9. CASE \/ WriteErase /\ ~Repeats("SET_WR_BLK_ERASE_COUNT", 0)
           \/ WriteCommand /\ ~Repeats(WriteTransfer, Place)
           \/ WriteStop /\ ~Repeats("STOP_TRANSMISSION", 0)
           \/ WriteNumber /\ ~Repeats("SEND_NUM_WR_BLOCKS", 0)
           \/ WriteStatus /\ ~Repeats("SEND_STATUS", 0)
  BY <1>1, <1>9, WriteEraseStep, WriteCommandStep, WriteStopStep, WriteNumberStep, WriteStatusStep DEF Settled
<1> QED BY <1>1, <1>2, <1>3, <1>4, <1>5, <1>6, <1>7, <1>8, <1>9 DEF Next

\* A call changes no sector but those it was asked to write: ff_sd_write sends
\* each block to its own address, also when it goes on after a refused block.  On
\* a card without CRC this holds of the calls in which nothing was damaged.
THEOREM OnlyAskedEverChanged == Spec => OnlyAskedChanged
<1>1. TypeInv /\ BusInv /\ [Next]_vars => [Honest]_vars
  BY NextHonest
<1> QED BY <1>1, TypeInvariant, BusInvariant, PTL DEF Spec, OnlyAskedChanged, Honest

-----------------------------------------------------------------------------
\* The calls the steps belong to.
LEMMA SameCall ==
    ASSUME TypeInv, NEW cmd, NEW arg, Repeats(cmd, arg)
    PROVE  op' = op
BY TypeParts, Repeating

LEMMA ReadCalls ==
    ASSUME TypeInv, ReadSelect \/ ReadCommand \/ ReadGood \/ ReadBad \/ ReadStop
    PROVE  pc \in ReadSteps /\ pc \in ReadSteps \cup WriteSteps /\ op.kind = "read" /\ op' = op
<1>1. pc \in {"read", "read command", "read bytes", "read stop"}
  BY ReadCommandForm, ReadStopForm DEF ReadSelect, Select, ReadGood, ReadBad
<1>2. pc \in ReadSteps /\ op.kind = "read"
  BY <1>1 DEF ReadSteps, TypeInv, CallSteps
<1>3. CASE Repeats(ReadTransfer, Place) \/ Repeats("STOP_TRANSMISSION", 0)
  BY <1>2, <1>3, SameCall
<1>4. CASE ~Repeats(ReadTransfer, Place) /\ ~Repeats("STOP_TRANSMISSION", 0)
  BY <1>2, <1>4, SelectStep, ReadCommandStep, ReadGoodStep, ReadBadStep, ReadStopStep DEF ReadSelect, Kept
<1> QED BY <1>3, <1>4

LEMMA WriteCalls ==
    ASSUME TypeInv,
           \/ WriteErase \/ WriteSelect \/ WriteCommand \/ WriteSingle \/ WriteMultiple
           \/ WriteWait \/ WriteStop \/ WriteNumber \/ WriteStatus
    PROVE  pc \in WriteSteps /\ pc \in ReadSteps \cup WriteSteps /\ op.kind = "write" /\ op' = op
<1>1. pc \in {"write erase", "write", "write command", "write bytes", "write wait", "write stop",
              "write number", "write status"}
  BY WriteEraseForm, WriteCommandForm, WriteStopForm, WriteNumberForm, WriteStatusForm
  DEF WriteSelect, Select, WriteSingle, WriteMultiple, WriteWait
<1>2. pc \in WriteSteps /\ op.kind = "write"
  BY <1>1 DEF WriteSteps, TypeInv, CallSteps
<1>3. CASE \/ Repeats("SET_WR_BLK_ERASE_COUNT", 0) \/ Repeats(WriteTransfer, Place)
           \/ Repeats("STOP_TRANSMISSION", 0) \/ Repeats("SEND_NUM_WR_BLOCKS", 0)
           \/ Repeats("SEND_STATUS", 0)
  BY <1>2, <1>3, SameCall
<1>4. CASE /\ ~Repeats("SET_WR_BLK_ERASE_COUNT", 0) /\ ~Repeats(WriteTransfer, Place)
           /\ ~Repeats("STOP_TRANSMISSION", 0) /\ ~Repeats("SEND_NUM_WR_BLOCKS", 0)
           /\ ~Repeats("SEND_STATUS", 0)
  BY <1>2, <1>4, SelectStep, WriteEraseStep, WriteCommandStep, WriteSingleStep, WriteMultipleStep,
     WriteWaitStep, WriteStopStep, WriteNumberStep, WriteStatusStep DEF WriteSelect, Kept
<1> QED BY <1>3, <1>4

LEMMA OtherCalls ==
    ASSUME TypeInv, ff_sd_initialize \/ ff_sd_status \/ ff_sd_ioctl_Sync \/ EndBegin
    PROVE  op'.kind \notin {"read", "write"}
<1>1. CASE ff_sd_initialize
  BY <1>1, InitMoves DEF InitMove, TypeInv, CallSteps
<1>2. CASE ff_sd_status \/ ff_sd_ioctl_Sync \/ EndBegin
  <2>0. pc \in {"status", "sync", "end"}
    BY <1>2, OtherForms, SyncStep
  <2>1. op' = op
    <3>1. CASE Repeats("SEND_STATUS", 0) \/ Repeats("GO_IDLE_STATE", 0)
      BY <3>1, SameCall
    <3>2. CASE ~Repeats("SEND_STATUS", 0) /\ ~Repeats("GO_IDLE_STATE", 0)
      BY <1>2, <3>2, StatusStep, SyncStep, EndStep DEF Kept
    <3> QED BY <3>1, <3>2
  <2> QED BY <2>0, <2>1 DEF TypeInv, CallSteps
<1> QED BY <1>1, <1>2

-----------------------------------------------------------------------------
\* What is read.
LEMMA ReadErrs ==
    ASSUME Errs
    PROVE  ReadInv'
BY DEF Errs, ReadInv, ReadCorrect, ReadSteps

\* Other calls say nothing about what is read.
LEMMA ReadOther ==
    ASSUME TypeInv', op'.kind # "read"
    PROVE  ReadInv'
BY DEF TypeInv, CallSteps, ReadInv, ReadCorrect

\* A step that receives no block keeps what is read.
LEMMA ReadKept ==
    ASSUME ReadInv, pc \in ReadSteps, pc' \in ReadSteps, Kept,
           buffer' = buffer, card'.block = card.block, done' = done, Intact' => Intact
    PROVE  ReadInv'
<1>1. /\ op' = op /\ card'.power = card.power
      /\ pc' # "idle"
  BY DEF Kept, ReadSteps
<1>2. ReadCorrect'
  BY <1>1 DEF ReadCorrect, Returned
<1>3. (card.power = "off" \/ card.block = op.before)'
  BY <1>1 DEF ReadInv
<1>4. (buffer \in [1 .. op.range.count -> Block \cup {Corrupt}])'
  BY <1>1 DEF ReadInv
<1>5. Intact' => (\A k \in 1 .. done : Read(k))'
  BY <1>1 DEF ReadInv, Read
<1> QED BY <1>2, <1>3, <1>4, <1>5 DEF ReadInv

\* The blocks up to the next one.
LEMMA FirstBlocks ==
    /\ \A d, c \in Nat : d <= c /\ d # c =>
        /\ d + 1 \in 1 .. c
        /\ \A k \in 1 .. (d + 1) : k = d + 1 \/ k \in 1 .. d
        /\ \A k \in 1 .. d : k # d + 1 /\ k \in 1 .. c
    /\ \A s, d \in Nat : s + (d + 1) - 1 = s + d
OBVIOUS

\* The block that is received is the next one, or passes for it on a card without CRC.
LEMMA ReadGoodRead ==
    ASSUME TypeInv, AddressInv, BusInv, ReadInv, ReadGood
    PROVE  /\ (buffer \in [1 .. op.range.count -> Block \cup {Corrupt}])'
           /\ Intact' => \A k \in 1 .. (done + 1) : Read(k)'
<1>1. pc \in ReadSteps /\ pc \in ReadSteps \cup WriteSteps /\ op' = op
  BY ReadCalls
<1>2. /\ pc = "read bytes" /\ card.mode \in Sectors /\ card.mode # Tran
      /\ host'.supports_crc = host.supports_crc
      /\ \/ buffer' = [buffer EXCEPT ![done + 1] = card.block[card.mode]] /\ spoilt' = spoilt
         \/ /\ ~host.supports_crc /\ spoilt'
            /\ \E block \in Damaged : buffer' = [buffer EXCEPT ![done + 1] = block]
  BY ReadGoodStep, Placed DEF Kept
<1>3. card.power = "ready" /\ card.block \in [Sectors -> Block] /\ Damaged \subseteq Block
  BY <1>2, TypeParts DEF AddressInv, CardStates, Damaged, Block
<1>4. /\ card.block = op.before
      /\ buffer \in [1 .. op.range.count -> Block \cup {Corrupt}]
      /\ Intact => \A k \in 1 .. done : Read(k)
  BY <1>1, <1>3 DEF ReadInv
<1>5. PICK b \in Block : buffer' = [buffer EXCEPT ![done + 1] = b]
  BY <1>2, <1>3
<1>6. buffer' \in [1 .. op.range.count -> Block \cup {Corrupt}]
  BY <1>4, <1>5
<1>7. ASSUME Intact', NEW k \in 1 .. (done + 1)
      PROVE  Read(k)'
  <2>1. Intact /\ buffer' = [buffer EXCEPT ![done + 1] = card.block[card.mode]]
    <3>1. host.supports_crc \/ ~spoilt'
      BY <1>2, <1>7 DEF Intact
    <3>2. Intact
      BY <1>2, <1>7, IntactKept
    <3> QED BY <1>2, <3>1, <3>2
  <2>2. /\ card.mode = op.range.sector + done /\ done \in Nat /\ done # op.range.count
        /\ op.range.sector \in Nat /\ op.range.count \in Nat /\ done <= op.range.count
    BY <1>1, <1>2, <2>1, InPlace, CallTyped, CallCounted DEF Counted
  <2>3. /\ done + 1 \in 1 .. op.range.count
        /\ k = done + 1 \/ k \in 1 .. done
        /\ k \in 1 .. done => k # done + 1 /\ k \in 1 .. op.range.count
        /\ op.range.sector + (done + 1) - 1 = op.range.sector + done
    BY <2>2, FirstBlocks
  <2>4. CASE k = done + 1
    <3>1. buffer'[k] = card.block[card.mode]
      BY <1>4, <2>1, <2>3, <2>4
    <3>2. op.range.sector + k - 1 = op.range.sector + done
      BY <2>3, <2>4
    <3> QED BY <1>1, <1>4, <2>2, <3>1, <3>2 DEF Read
  <2>5. CASE k \in 1 .. done
    <3>1. buffer'[k] = buffer[k]
      BY <1>4, <2>1, <2>3, <2>5
    <3>2. Read(k)
      BY <1>4, <2>1, <2>5
    <3> QED BY <1>1, <3>1, <3>2 DEF Read
  <2> QED BY <2>3, <2>4, <2>5
<1> QED BY <1>1, <1>6, <1>7

\* Each step of ff_sd_read keeps the blocks read so far.
LEMMA ReadRead ==
    ASSUME TypeInv, AddressInv, BusInv, ReadInv, ReadSelect \/ ReadCommand \/ ReadGood \/ ReadBad \/ ReadStop
    PROVE  ReadInv'
<1> USE ReadCalls
<1>a. {"read", "read command", "read bytes", "read stop"} = ReadSteps /\ "idle" \notin ReadSteps
  BY DEF ReadSteps
<1>b. ASSUME Kept, spoilt' = spoilt \/ spoilt' PROVE Intact' => Intact
  BY <1>b, IntactKept DEF Kept
<1>1. CASE \/ ReadCommand /\ Repeats(ReadTransfer, Place)
           \/ ReadStop /\ Repeats("STOP_TRANSMISSION", 0)
  <2>1. ReadTransfer \notin Special /\ "STOP_TRANSMISSION" \notin Special
    BY DEF ReadTransfer, TransferCommand, Special
  <2>2. /\ Kept /\ pc' = pc /\ done' = done /\ buffer' = buffer /\ card'.block = card.block
        /\ spoilt => spoilt'
    BY <1>1, <2>1, RepeatKept
  <2>3. Intact' => Intact
    BY <2>2, IntactBefore DEF Kept
  <2> QED BY <2>2, <2>3, ReadKept
<1>2. CASE ReadSelect
  <2>1. \/ pc' = "read command" /\ done' = done /\ spoilt' = spoilt
        \/ Errs
    BY <1>2, SelectStep DEF ReadSelect
  <2>2. Kept /\ card' = card /\ buffer' = buffer
    BY <1>2, SelectStep DEF ReadSelect
  <2> QED BY <1>a, <1>b, <2>1, <2>2, ReadErrs, ReadKept
<1>3. CASE ReadCommand /\ ~Repeats(ReadTransfer, Place)
  <2>1. /\ Kept /\ buffer' = buffer /\ card'.block = card.block
        /\ spoilt' = spoilt \/ spoilt'
        /\ (pc' = "read bytes" /\ done' = done) \/ Errs
    BY <1>3, ReadCommandStep DEF Settled
  <2> QED BY <1>3, <1>a, <1>b, <2>1, ReadErrs, ReadKept
<1>4. CASE ReadGood
  <2>1. /\ (buffer \in [1 .. op.range.count -> Block \cup {Corrupt}])'
        /\ Intact' => \A k \in 1 .. (done + 1) : Read(k)'
    BY <1>4, ReadGoodRead
  <2>0. /\ pc = "read bytes" /\ card.mode # Tran /\ host'.supports_crc = host.supports_crc
        /\ spoilt' = spoilt \/ spoilt'
    BY <1>4, ReadGoodStep, Placed DEF Kept
  <2>2. CASE op.range.count = 1
    <3>1. pc' = "idle" /\ op' = op
      BY <1>4, <2>2, ReadGoodStep
    <3>2. ASSUME Intact' PROVE done + 1 = 1
      <4>1. done \in Nat /\ done <= op.range.count /\ done # op.range.count
        BY <1>4, <2>0, <3>2, IntactKept, InPlace, CallCounted DEF Counted
      <4>2. \A d \in Nat : d <= 1 /\ d # 1 => d + 1 = 1
        OBVIOUS
      <4> QED BY <2>2, <4>1, <4>2
    <3>3. Intact' => \A k \in 1 .. op'.range.count : Read(k)'
      BY <2>1, <2>2, <3>1, <3>2
    <3>4. ReadCorrect'
      BY <3>3 DEF ReadCorrect, Read
    <3> QED BY <1>a, <3>1, <3>4 DEF ReadInv
  <2>3. CASE op.range.count # 1
    <3>1. /\ done' = done + 1 /\ pc' \in {"read stop", "read bytes"} /\ op' = op
          /\ card'.block = card.block /\ card'.power = card.power
      BY <1>4, <2>3, ReadGoodStep DEF Kept
    <3>2. ReadCorrect' /\ pc' # "idle"
      BY <3>1 DEF ReadCorrect, Returned
    <3>3. (card.power = "off" \/ card.block = op.before)'
      BY <1>4, <3>1 DEF ReadInv
    <3>4. Intact' => (\A k \in 1 .. done : Read(k))'
      BY <2>1, <3>1
    <3> QED BY <2>1, <3>2, <3>3, <3>4 DEF ReadInv
  <2> QED BY <2>2, <2>3
<1>5. CASE ReadBad
  <2>1. /\ Kept /\ buffer' = buffer /\ card'.block = card.block
        /\ spoilt' = spoilt \/ spoilt'
        /\ (pc' \in {"read", "read stop"} /\ done' = done) \/ Errs
    BY <1>5, ReadBadStep
  <2> QED BY <1>5, <1>a, <1>b, <2>1, ReadErrs, ReadKept
<1>6. CASE ReadStop /\ ~Repeats("STOP_TRANSMISSION", 0)
  <2>1. /\ Kept /\ buffer' = buffer /\ card'.block = card.block
        /\ spoilt' = spoilt \/ spoilt'
        /\ \/ Errs
           \/ done = op.range.count /\ pc' = "idle"
           \/ pc' = "read" /\ done' = done
    BY <1>6, ReadStopStep DEF Settled
  <2>2. CASE done = op.range.count /\ pc' = "idle"
    <3>0. Intact' => Intact
      BY <1>b, <2>1
    <3>1. Intact' => \A k \in 1 .. op.range.count : Read(k)
      BY <1>6, <2>2, <3>0 DEF ReadInv
    <3>2. ReadCorrect'
      BY <2>1, <3>1 DEF ReadCorrect, Read, Kept
    <3> QED BY <1>a, <2>2, <3>2 DEF ReadInv
  <2> QED BY <1>6, <1>a, <1>b, <2>1, <2>2, ReadErrs, ReadKept
<1> QED BY <1>1, <1>2, <1>3, <1>4, <1>5, <1>6

LEMMA CallRead ==
    ASSUME TypeInv, TypeInv', ReadInv, Called \/ Swap
    PROVE  ReadInv'
<1>1. CASE Called
  <2>1. CASE op'.kind # "read"
    BY <2>1, ReadOther
  <2>2. CASE op'.kind = "read"
    <3>1. /\ op'.before = card.block /\ card' = card /\ done' = 0
          /\ buffer' = [k \in 1 .. op'.range.count |-> Corrupt] /\ <<op'.kind, pc'>> \in Calls
      BY <1>1, <2>2, Calling
    <3>2. pc' # "idle"
      BY <3>1 DEF Calls
    <3>3. 1 .. 0 = {}
      OBVIOUS
    <3> QED BY <3>1, <3>2, <3>3 DEF ReadInv, ReadCorrect, Returned
  <2> QED BY <2>1, <2>2
<1>2. CASE Swap
  <2>1. /\ pc' = pc /\ done' = done /\ host' = host /\ card'.power = "off"
        /\ pc = "idle" => result' = "none"
        /\ pc # "idle" => op' = op /\ buffer' = buffer /\ spoilt'
    BY <1>2, Swapping
  <2>2. ReadCorrect'
    BY <2>1 DEF ReadCorrect, Returned
  <2>3. CASE pc = "idle"
    BY <2>1, <2>2, <2>3 DEF ReadInv, ReadSteps
  <2>4. CASE pc # "idle"
    <3>1. Intact' => Intact
      BY <2>1, <2>4 DEF Intact
    <3> QED BY <2>1, <2>2, <2>4, <3>1 DEF ReadInv, Read
  <2> QED BY <2>3, <2>4
<1> QED BY <1>1, <1>2

\* Every step does.
LEMMA NextRead ==
    ASSUME TypeInv, AddressInv, BusInv, ReadInv, [Next]_vars
    PROVE  ReadInv'
<1>0. TypeInv'
  BY NextTyped
<1>1. CASE UNCHANGED vars
  <2>1. /\ pc' = pc /\ op' = op /\ done' = done /\ buffer' = buffer /\ host' = host /\ card' = card
        /\ result' = result /\ spoilt' = spoilt
    BY <1>1, Stuttering
  <2> QED BY <2>1 DEF ReadInv, Read, ReadCorrect, Returned, Intact
<1>2. CASE \/ WriteErase \/ WriteSelect \/ WriteCommand \/ WriteSingle \/ WriteMultiple
           \/ WriteWait \/ WriteStop \/ WriteNumber \/ WriteStatus
  BY <1>0, <1>2, WriteCalls, ReadOther
<1>3. CASE ff_sd_initialize \/ ff_sd_status \/ ff_sd_ioctl_Sync \/ EndBegin
  BY <1>0, <1>3, OtherCalls, ReadOther
<1> QED BY <1>0, <1>1, <1>2, <1>3, ReadRead, CallRead DEF Next

LEMMA InitialRead ==
    ASSUME Init
    PROVE  ReadInv
<1>1. pc = "idle" /\ result = "none" /\ "idle" \notin ReadSteps
  BY DEF Init, ReadSteps
<1> QED BY <1>1 DEF ReadInv, ReadCorrect

\* The blocks that ff_sd_read has received are those of the first sectors, however often
\* the transfer was resumed.
THEOREM ReadInvariant == Spec => []ReadInv
<1>1. Init => ReadInv
  BY InitialRead
<1>2. TypeInv /\ AddressInv /\ BusInv /\ ReadInv /\ [Next]_vars => ReadInv'
  BY NextRead
<1> QED BY <1>1, <1>2, TypeInvariant, Addresses, BusInvariant, PTL DEF Spec

\* An ff_sd_read that reports RES_OK has delivered the blocks of the sectors asked
\* for, each at its place in the buffer, however often the transfer was broken off
\* and resumed; if the CRC is not checked, of calls in which nothing was damaged.
THEOREM ReadsAreCorrect == Spec => []ReadCorrect
<1>1. ReadInv => ReadCorrect
  BY DEF ReadInv
<1> QED BY <1>1, ReadInvariant, PTL

-----------------------------------------------------------------------------
\* What is written.
LEMMA WriteErrs ==
    ASSUME Errs
    PROVE  WriteInv'
BY DEF Errs, WriteInv, WriteStored, WriteSteps

\* Other calls say nothing about what is written.
LEMMA WriteOther ==
    ASSUME TypeInv', op'.kind # "write"
    PROVE  WriteInv'
<1>1. pc' \notin WriteSteps
  BY DEF TypeInv, CallSteps
<1> QED BY <1>1 DEF WriteInv, WriteStored, WriteSteps

\* The sectors before the first one that is not yet written.
LEMMA FirstSectors ==
    /\ \A s, e, d \in Nat : e <= d => \A x \in s .. (s + e - 1) : x \in s .. (s + d - 1)
    /\ \A s, d \in Nat : \A x \in s .. (s + (d + 1) - 1) : x = s + d \/ (x # s + d /\ x \in s .. (s + d - 1))
    /\ \A s, c, d, n \in Nat : s + c <= n /\ d <= c => \A x \in s .. (s + d - 1) : x \in 0 .. (n - 1) /\ x # s + d
    /\ \A s \in Nat : s .. (s + 1 - 1) = {s} /\ s .. (s + 0 - 1) = {} /\ s + 0 = s
    /\ \A d \in Nat : d <= 1 /\ d # 1 => d = 0
OBVIOUS

LEMMA SectorsAsked ==
    /\ \A s, c, d, n \in Nat : s + c <= n /\ d <= c => \A x \in s .. (s + d - 1) : x \in 0 .. (n - 1)
    /\ \A s \in Nat : \A c : c = 1 => s \in s .. (s + c - 1)
OBVIOUS

\* A step that sends no block, or goes back, keeps what is written.
LEMMA WriteKept ==
    ASSUME TypeInv, WriteInv, pc \in WriteSteps, pc' \in WriteSteps, pc' # "write status", Kept,
           card'.block = card.block,
           Intact' => Intact /\ done' \in Nat /\ done' <= done
    PROVE  WriteInv'
<1>1. op' = op /\ card'.power = card.power /\ pc' # "idle"
  BY DEF Kept, WriteSteps
<1>2. ASSUME Intact'
      PROVE  (card.power = "off" \/ \A s \in op.range.sector .. (op.range.sector + done - 1) : Stored(s))'
  <2>1. Intact /\ done' \in Nat /\ done' <= done
    BY <1>2
  <2>2. op.range.sector \in Nat /\ done \in Nat
    BY <2>1, CallTyped, CallCounted DEF Counted
  <2>3. \A s \in op.range.sector .. (op.range.sector + done' - 1) : s \in op.range.sector .. (op.range.sector + done - 1)
    BY <2>1, <2>2, FirstSectors
  <2> QED BY <1>1, <2>1, <2>3 DEF WriteInv, Stored
<1>3. WriteStored'
  BY <1>1 DEF WriteStored, Returned
<1> QED BY <1>2, <1>3 DEF WriteInv

\* What a step leaves alone stays as it is.
LEMMA WriteUnmoved ==
    ASSUME TypeInv, WriteInv, pc \in WriteSteps, pc' = pc, Kept,
           card'.block = card.block, done' = done, answer' = answer, Intact' => Intact
    PROVE  WriteInv'
<1>1. op' = op /\ card'.power = card.power /\ pc' # "idle"
  BY DEF Kept, WriteSteps
<1>2. WriteStored'
  BY <1>1 DEF WriteStored, Returned
<1> QED BY <1>1, <1>2 DEF WriteInv, Stored

\* A block that was sent and stored.
LEMMA SentStored ==
    ASSUME TypeInv, AddressInv, BusInv, WriteInv, pc = "write bytes", Delivered, Kept, answer' = 5, Intact'
    PROVE  (card.power = "off")' \/ \A s \in op.range.sector .. (op.range.sector + (done + 1) - 1) : Stored(s)'
<1>1. pc \in WriteSteps /\ pc \in ReadSteps \cup WriteSteps
  BY DEF WriteSteps
<1>2. BlockTaken /\ Intact /\ Counted
  <2>1. BlockTaken
    BY Responses DEF Delivered, BlockNotTaken
  <2>2. Intact
    BY IntactDelivered DEF Kept
  <2> QED BY <1>1, <2>1, <2>2 DEF Counted
<1>3. /\ OnCard /\ card.mode \in Sectors /\ card.mode = op.range.sector + done
      /\ card.block \in [Sectors -> Block]
      /\ op' = op /\ card'.power = card.power
  BY <1>2, InPlace, Placed, TypeParts DEF BlockTaken, OnCard, CardStates, Kept
<1>9. card'.block = [card.block EXCEPT ![card.mode] = [for |-> op.range.sector + done, version |-> op.version]]
  <2>1. ~(~host.supports_crc /\ spoilt')
    BY DEF Kept, Intact
  <2>2. PICK block \in Sent : card'.block = [card.block EXCEPT ![card.mode] = block]
    BY <1>2, <2>1 DEF BlockTaken
  <2>3. Sent = {[for |-> op.range.sector + done, version |-> op.version]}
    BY <1>2, <1>3, Sending
  <2> QED BY <2>2, <2>3
<1>4. /\ op.range.sector \in Nat /\ op.range.count \in Nat /\ done \in Nat /\ NSectors \in Nat
      /\ op.range.sector + op.range.count <= NSectors /\ done <= op.range.count
  BY <1>1, <1>2, CallTyped, CallCounted, CardAssumption
<1>5. /\ \A s \in op.range.sector .. (op.range.sector + (done + 1) - 1) :
            s = op.range.sector + done
            \/ (s # op.range.sector + done /\ s \in op.range.sector .. (op.range.sector + done - 1))
      /\ \A s \in op.range.sector .. (op.range.sector + done - 1) : s \in 0 .. (NSectors - 1)
  <2>1. \A s \in op.range.sector .. (op.range.sector + (done + 1) - 1) :
            s = op.range.sector + done
            \/ (s # op.range.sector + done /\ s \in op.range.sector .. (op.range.sector + done - 1))
    BY <1>4, FirstSectors, Zenon
  <2>2. \A s \in op.range.sector .. (op.range.sector + done - 1) : s \in 0 .. (NSectors - 1)
    <3>1. PICK s0 \in Nat, c0 \in Nat, d0 \in Nat, n0 \in Nat :
            s0 = op.range.sector /\ c0 = op.range.count /\ d0 = done /\ n0 = NSectors
      BY <1>4, Zenon
    <3>2. s0 + c0 <= n0 /\ d0 <= c0
      BY <1>4, <3>1, Zenon
    <3>3. \A s \in s0 .. (s0 + d0 - 1) : s \in 0 .. (n0 - 1)
      BY <3>2, SectorsAsked
    <3> QED BY <3>1, <3>3, Zenon
  <2> QED BY <2>1, <2>2
<1>6. SUFFICES ASSUME card.power # "off", NEW s \in op.range.sector .. (op.range.sector + (done + 1) - 1)
               PROVE  Stored(s)'
  BY <1>3
<1>7. CASE s = op.range.sector + done
  BY <1>3, <1>7, <1>9 DEF Stored
<1>8. CASE s # op.range.sector + done /\ s \in op.range.sector .. (op.range.sector + done - 1)
  <2>1. s \in Sectors
    BY <1>5, <1>8 DEF Sectors
  <2>2. Stored(s)
    BY <1>1, <1>2, <1>6, <1>8 DEF WriteInv
  <2>3. card'.block[s] = card.block[s]
    BY <1>3, <1>8, <1>9, <2>1
  <2> QED BY <1>3, <2>2, <2>3 DEF Stored
<1> QED BY <1>5, <1>7, <1>8

\* Each step of ff_sd_write keeps the blocks written so far.
LEMMA WriteWrite ==
    ASSUME TypeInv, AddressInv, BusInv, WriteInv,
           \/ WriteErase \/ WriteSelect \/ WriteCommand \/ WriteSingle \/ WriteMultiple
           \/ WriteWait \/ WriteStop \/ WriteNumber \/ WriteStatus
    PROVE  WriteInv'
<1> USE WriteCalls
<1>a. {"write erase", "write", "write command", "write bytes", "write wait", "write stop",
       "write number", "write status"} = WriteSteps /\ "idle" \notin WriteSteps
  BY DEF WriteSteps
<1>b. op.range.sector \in Nat /\ op.range.count \in Nat
  BY CallTyped
<1>c. ASSUME Kept, spoilt' = spoilt \/ spoilt' PROVE Intact' => Intact
  BY <1>c, IntactKept DEF Kept
<1>d. Intact => done \in Nat /\ done <= done /\ done <= op.range.count
  <2>1. \A d \in Nat : d <= d
    OBVIOUS
  <2> QED BY <2>1, CallCounted DEF Counted
<1>1. CASE \/ WriteErase /\ Repeats("SET_WR_BLK_ERASE_COUNT", 0)
           \/ WriteCommand /\ Repeats(WriteTransfer, Place)
           \/ WriteStop /\ Repeats("STOP_TRANSMISSION", 0)
           \/ WriteNumber /\ Repeats("SEND_NUM_WR_BLOCKS", 0)
           \/ WriteStatus /\ Repeats("SEND_STATUS", 0)
  <2>1. {"SET_WR_BLK_ERASE_COUNT", WriteTransfer, "STOP_TRANSMISSION", "SEND_NUM_WR_BLOCKS", "SEND_STATUS"}
            \cap Special = {}
    BY DEF WriteTransfer, TransferCommand, Special
  <2>2. /\ Kept /\ pc' = pc /\ done' = done /\ answer' = answer /\ card'.block = card.block
        /\ spoilt => spoilt'
    BY <1>1, <2>1, RepeatKept
  <2>3. Intact' => Intact
    BY <2>2, IntactBefore DEF Kept
  <2> QED BY <2>2, <2>3, WriteUnmoved
<1>2. CASE WriteErase /\ ~Repeats("SET_WR_BLK_ERASE_COUNT", 0)
  <2>1. /\ Kept /\ card'.block = card.block /\ (spoilt' = spoilt \/ spoilt')
        /\ (pc' = "write" /\ done' = done) \/ Errs
    BY <1>2, WriteEraseStep DEF Settled
  <2> QED BY <1>2, <1>a, <1>c, <1>d, <2>1, WriteErrs, WriteKept
<1>3. CASE WriteSelect
  <2>1. /\ Kept /\ card' = card /\ (spoilt' = spoilt \/ spoilt')
        /\ (pc' = "write command" /\ done' = done) \/ Errs
    BY <1>3, SelectStep DEF WriteSelect
  <2> QED BY <1>3, <1>a, <1>c, <1>d, <2>1, WriteErrs, WriteKept
<1>4. CASE WriteCommand /\ ~Repeats(WriteTransfer, Place)
  <2>1. /\ Kept /\ card'.block = card.block /\ (spoilt' = spoilt \/ spoilt')
        /\ (pc' = "write bytes" /\ done' = done) \/ Errs
    BY <1>4, WriteCommandStep DEF Settled
  <2> QED BY <1>4, <1>a, <1>c, <1>d, <2>1, WriteErrs, WriteKept
<1>5. CASE WriteSingle
  <2>1. /\ pc = "write bytes" /\ op.range.count = 1 /\ Kept /\ Delivered
        /\ spoilt' = spoilt \/ spoilt'
        /\ \/ pc' = "write" /\ done' = done /\ BlockNotTaken
           \/ Errs
           \/ pc' = "write status" /\ done' = done
    BY <1>5, WriteSingleStep DEF Delivered
  <2>0. Intact' => Intact
    BY <1>c, <2>1
  <2>2. ASSUME Intact' PROVE done = 0
    <3>1. done # op.range.count /\ done \in Nat /\ done <= op.range.count
      BY <1>5, <2>0, <2>1, <2>2, CallCounted DEF Counted
    <3> QED BY <2>1, <3>1, FirstSectors
  <2>3. CASE pc' = "write" /\ done' = done /\ BlockNotTaken
    <3>1. card'.block = card.block
      BY <2>3 DEF BlockNotTaken
    <3> QED BY <1>5, <1>a, <1>d, <2>0, <2>1, <2>3, <3>1, WriteKept
  <2>4. CASE pc' = "write status" /\ done' = done
    <3>1. op' = op
      BY <2>1 DEF Kept
    <3>2. ASSUME Intact', answer' = 5 PROVE (card.power = "off")' \/ Stored(op.range.sector)'
      <4>1. op.range.sector \in op.range.sector .. (op.range.sector + (done + 1) - 1)
        <5>1. \A s \in Nat : s \in s .. (s + (0 + 1) - 1)
          OBVIOUS
        <5> QED BY <1>b, <2>2, <3>2, <5>1
      <4> QED BY <2>1, <3>2, <4>1, SentStored
    <3>3. Intact' => op.range.sector .. (op.range.sector + done' - 1) = {}
      BY <1>b, <2>2, <2>4, FirstSectors
    <3>4. Intact' => (\A s \in op.range.sector .. (op.range.sector + done - 1) : Stored(s))'
      BY <3>1, <3>3
    <3>5. WriteStored'
      BY <2>4 DEF WriteStored, Returned
    <3>6. op'.range.count = 1 /\ (Intact' => (answer' = 5 => (card.power = "off" \/ Stored(op.range.sector))'))
      BY <2>1, <3>1, <3>2 DEF Stored
    <3> QED BY <3>4, <3>5, <3>6 DEF WriteInv
  <2> QED BY <2>1, <2>3, <2>4, WriteErrs
<1>6. CASE WriteMultiple
  <2>1. /\ pc = "write bytes" /\ op.range.count # 1 /\ Kept /\ Delivered
        /\ spoilt' = spoilt \/ spoilt'
        /\ \/ answer' = 5 /\ done' = done + 1 /\ pc' \in {"write wait", "write bytes"}
           \/ answer' # 5 /\ done' = done /\ pc' = "write wait"
    BY <1>6, WriteMultipleStep DEF Delivered
  <2>0. Intact' => Intact
    BY <1>c, <2>1
  <2>2. CASE answer' = 5 /\ done' = done + 1 /\ pc' \in {"write wait", "write bytes"}
    <3>1. op' = op
      BY <2>1 DEF Kept
    <3>2. ASSUME Intact'
          PROVE  (card.power = "off" \/ \A s \in op.range.sector .. (op.range.sector + done - 1) : Stored(s))'
      BY <2>1, <2>2, <3>1, <3>2, SentStored
    <3>3. WriteStored' /\ pc' # "write status"
      BY <2>2 DEF WriteStored, Returned
    <3> QED BY <3>2, <3>3 DEF WriteInv
  <2>3. CASE answer' # 5 /\ done' = done /\ pc' = "write wait"
    <3>1. CASE card'.block = card.block
      BY <1>6, <1>a, <1>d, <2>0, <2>1, <2>3, <3>1, WriteKept
    <3>2. CASE BlockTaken
      <4>1. ASSUME Intact'
            PROVE  (card.power = "off" \/ \A s \in op.range.sector .. (op.range.sector + done - 1) : Stored(s))'
        <5>1. PICK block : card'.block = [card.block EXCEPT ![card.mode] = block]
          BY <3>2 DEF BlockTaken
        <5>2. /\ card.mode = op.range.sector + done /\ done \in Nat /\ Intact /\ done <= op.range.count
              /\ op' = op /\ card'.power = card.power
              /\ card.block \in [Sectors -> Block]
          BY <1>d, <2>0, <2>1, <3>2, <4>1, InPlace, Placed, TypeParts DEF BlockTaken, OnCard, CardStates, Kept
        <5>3. \A s \in op.range.sector .. (op.range.sector + done - 1) : s \in Sectors /\ s # card.mode
          <6>1. PICK s0 \in Nat, c0 \in Nat, d0 \in Nat, n0 \in Nat :
                  s0 = op.range.sector /\ c0 = op.range.count /\ d0 = done /\ n0 = NSectors
            BY <1>b, <5>2, CardAssumption
          <6>2. s0 + c0 <= n0 /\ d0 <= c0
            BY <5>2, <6>1, CallTyped
          <6>3. \A s \in s0 .. (s0 + d0 - 1) : s \in 0 .. (n0 - 1) /\ s # s0 + d0
            BY <6>2, FirstSectors
          <6> QED BY <5>2, <6>1, <6>3 DEF Sectors
        <5>4. \A s \in op.range.sector .. (op.range.sector + done - 1) : card'.block[s] = card.block[s]
          BY <5>1, <5>2, <5>3
        <5> QED BY <1>6, <2>3, <5>2, <5>4 DEF WriteInv, Stored
      <4>2. WriteStored' /\ pc' # "write status"
        BY <2>3 DEF WriteStored, Returned
      <4> QED BY <4>1, <4>2 DEF WriteInv
    <3> QED BY <2>1, <3>1, <3>2 DEF Delivered, BlockNotTaken
  <2> QED BY <2>1, <2>2, <2>3
<1>7. CASE WriteWait
  <2>1. /\ Kept /\ card'.block = card.block /\ answer' = answer
        /\ spoilt' = spoilt \/ spoilt'
        /\ \/ pc' = "write status" /\ done = op.range.count /\ done' = done
           \/ pc' = "write stop" /\ done' = done
           \/ Errs
    BY <1>7, WriteWaitStep
  <2>0. Intact' => Intact
    BY <1>c, <2>1
  <2>2. CASE pc' = "write status" /\ done = op.range.count /\ done' = done
    <3>1. op' = op /\ card'.power = card.power
      BY <2>1 DEF Kept
    <3>2. Intact' => (card.power = "off" \/ \A s \in op.range.sector .. (op.range.sector + done - 1) : Stored(s))'
      BY <1>7, <2>0, <2>1, <2>2, <3>1 DEF WriteInv, Stored
    <3>3. op.range.count = 1 => op.range.sector \in op.range.sector .. (op.range.sector + done - 1)
      BY <1>b, <2>2, SectorsAsked, Zenon
    <3>4. Intact' /\ op.range.count = 1 => (card.power = "off" \/ Stored(op.range.sector))'
      BY <2>2, <3>1, <3>2, <3>3 DEF Stored
    <3>5. WriteStored'
      BY <2>2 DEF WriteStored, Returned
    <3> QED BY <2>2, <3>1, <3>2, <3>4, <3>5 DEF WriteInv
  <2> QED BY <1>7, <1>a, <1>d, <2>0, <2>1, <2>2, WriteErrs, WriteKept
<1>8. CASE WriteStop /\ ~Repeats("STOP_TRANSMISSION", 0)
  <2>1. /\ Kept /\ card'.block = card.block /\ (spoilt' = spoilt \/ spoilt')
        /\ (pc' = "write number" /\ done' = done) \/ Errs
    BY <1>8, WriteStopStep DEF Settled
  <2> QED BY <1>8, <1>a, <1>c, <1>d, <2>1, WriteErrs, WriteKept
<1>9. CASE WriteNumber /\ ~Repeats("SEND_NUM_WR_BLOCKS", 0)
  <2>1. /\ Kept /\ card'.block = card.block /\ (spoilt' = spoilt \/ spoilt')
        /\ (pc' = "write erase" /\ (Intact /\ Intact' => done' \in Nat /\ done' <= done)) \/ Errs
    BY <1>9, WriteNumberStep DEF Settled
  <2> QED BY <1>9, <1>a, <1>c, <2>1, WriteErrs, WriteKept
<1>10. CASE WriteStatus /\ ~Repeats("SEND_STATUS", 0)
  <2>1. /\ pc = "write status" /\ Kept /\ card'.block = card.block /\ answer' = answer
        /\ (pc' = "idle" /\ card.power # "off" /\ spoilt' = spoilt) \/ Errs
    BY <1>10, WriteStatusStep DEF Settled
  <2>2. CASE pc' = "idle" /\ card.power # "off" /\ spoilt' = spoilt
    <3>0. Intact' => Intact
      BY <1>c, <2>1, <2>2
    <3>1. Intact /\ op.range.count = 1 /\ answer = 5 => \A s \in Asked : Stored(s)
      <4>1. op.range.count = 1 => Asked = {op.range.sector}
        BY <1>b, FirstSectors DEF Asked
      <4> QED BY <2>1, <2>2, <4>1 DEF WriteInv
    <3>2. Intact /\ op.range.count # 1 => \A s \in Asked : Stored(s)
      BY <1>10, <2>1, <2>2 DEF WriteInv, Asked
    <3>3. op.range.count > 1 => op.range.count # 1
      <4>1. \A n \in Nat : n > 1 => n # 1
        OBVIOUS
      <4> QED BY <1>b, <4>1
    <3>4. op' = op
      BY <2>1 DEF Kept
    <3>5. WriteStored'
      BY <2>1, <3>0, <3>1, <3>2, <3>3, <3>4 DEF WriteStored, Stored, Asked
    <3> QED BY <1>a, <2>2, <3>5 DEF WriteInv
  <2> QED BY <2>1, <2>2, WriteErrs
<1> QED BY <1>1, <1>2, <1>3, <1>4, <1>5, <1>6, <1>7, <1>8, <1>9, <1>10

LEMMA CallWrite ==
    ASSUME TypeInv, TypeInv', WriteInv, Called \/ Swap
    PROVE  WriteInv'
<1>1. CASE Called
  <2>1. CASE op'.kind # "write"
    BY <2>1, WriteOther
  <2>2. CASE op'.kind = "write"
    <3>1. done' = 0 /\ <<op'.kind, pc'>> \in Calls
      BY <1>1, <2>2, Calling
    <3>2. pc' \in WriteSteps /\ pc' \in ReadSteps \cup WriteSteps /\ pc' # "idle" /\ pc' # "write status"
      BY <2>2, <3>1 DEF Calls, WriteSteps
    <3>3. op'.range.sector .. (op'.range.sector + done' - 1) = {}
      <4>1. op'.range.sector \in Nat
        <5>1. op' \in Ops
          BY DEF TypeInv, TypeOK
        <5> QED BY <2>2, <5>1, CardAssumption DEF Ops, Ranges, Sectors
      <4> QED BY <3>1, <4>1, FirstSectors
    <3> QED BY <3>2, <3>3 DEF WriteInv, WriteStored, Returned
  <2> QED BY <2>1, <2>2
<1>2. CASE Swap
  <2>1. /\ pc' = pc /\ done' = done /\ host' = host /\ card'.power = "off"
        /\ pc = "idle" => result' = "none"
        /\ pc # "idle" => op' = op /\ answer' = answer /\ spoilt'
    BY <1>2, Swapping
  <2>2. WriteStored'
    BY <2>1 DEF WriteStored, Returned
  <2>3. CASE pc = "idle"
    BY <2>1, <2>2, <2>3 DEF WriteInv, WriteSteps
  <2>4. CASE pc # "idle"
    <3>1. Intact' => Intact
      BY <2>1, <2>4 DEF Intact
    <3> QED BY <2>1, <2>2, <2>4, <3>1 DEF WriteInv
  <2> QED BY <2>3, <2>4
<1> QED BY <1>1, <1>2

\* Every step does.
LEMMA NextWrite ==
    ASSUME TypeInv, AddressInv, BusInv, WriteInv, [Next]_vars
    PROVE  WriteInv'
<1>0. TypeInv'
  BY NextTyped
<1>1. CASE UNCHANGED vars
  <2>1. /\ pc' = pc /\ op' = op /\ done' = done /\ answer' = answer /\ card' = card
        /\ result' = result /\ host' = host /\ spoilt' = spoilt
    BY <1>1, Stuttering
  <2> QED BY <2>1 DEF WriteInv, Stored, WriteStored, Returned, Asked, Intact
<1>2. CASE ReadSelect \/ ReadCommand \/ ReadGood \/ ReadBad \/ ReadStop
  BY <1>0, <1>2, ReadCalls, WriteOther
<1>3. CASE ff_sd_initialize \/ ff_sd_status \/ ff_sd_ioctl_Sync \/ EndBegin
  BY <1>0, <1>3, OtherCalls, WriteOther
<1> QED BY <1>0, <1>1, <1>2, <1>3, WriteWrite, CallWrite DEF Next

LEMMA InitialWrite ==
    ASSUME Init
    PROVE  WriteInv
<1>1. pc = "idle" /\ result = "none" /\ "idle" \notin WriteSteps
  BY DEF Init, WriteSteps
<1> QED BY <1>1 DEF WriteInv, WriteStored

\* The blocks that ff_sd_write counts as written are stored, also after it was told by the
\* card to go back.
THEOREM WriteInvariant == Spec => []WriteInv
<1>1. Init => WriteInv
  BY InitialWrite
<1>2. TypeInv /\ AddressInv /\ BusInv /\ WriteInv /\ [Next]_vars => WriteInv'
  BY NextWrite
<1> QED BY <1>1, <1>2, TypeInvariant, Addresses, BusInvariant, PTL DEF Spec

\* An ff_sd_write of several sectors that reports RES_OK has stored every block
\* at its place, whatever blocks were refused on the way and sent again after
\* SEND_NUM_WR_BLOCKS; one of a single sector if the card accepted the block.  On a
\* card without CRC this holds of the calls in which nothing was damaged.
THEOREM WritesAreStored == Spec => []WriteStored
<1>1. WriteInv => WriteStored
  BY DEF WriteInv
<1> QED BY <1>1, WriteInvariant, PTL

-----------------------------------------------------------------------------
\* The CRC: a card that checks it is told so by the driver, which sends it.
Known1 == {"init ccs"} \cup OpSteps \cup LateInit \cup ReadSteps \cup WriteSteps
Known2 == LateInit \cup ReadSteps \cup WriteSteps

\* A command other than CRC_ON_OFF does not make the card check the CRC.
LEMMA CommandCrc ==
    ASSUME TypeInv, CrcInv, NEW cmd, NEW arg, cmd \notin {"GO_IDLE_STATE", "CRC_ON_OFF"} \cup Transfers,
           card' = card \/ card' = Executed(cmd, arg)
    PROVE  /\ card'.kind = card.kind /\ card'.crcOn = card.crcOn
           /\ card'.crcOn => card'.kind.crc
           /\ card'.power = "off" => ~card'.crcOn
<1>1. card'.kind = card.kind /\ card'.crcOn = card.crcOn
  BY TypeParts, Execution, Effects
<1>2. card'.power = "off" => card.power = "off"
  <2>1. card' = card \/ card.power # "off" \/ Executed(cmd, arg) = card
    BY TypeParts, Effects
  <2>2. card.power # "off" => Executed(cmd, arg).power # "off"
    <3>1. CASE cmd \notin {"APP_OP_COND", "SEND_OP_COND"}
      BY <3>1, TypeParts, Effects
    <3>2. CASE cmd \in {"APP_OP_COND", "SEND_OP_COND"}
      BY <3>2, OpCondEffects
    <3> QED BY <3>1, <3>2
  <2> QED BY <2>1, <2>2
<1> QED BY <1>1, <1>2 DEF CrcInv

\* A step that changes neither card nor type keeps the agreement about the CRC.
LEMMA CrcKept ==
    ASSUME TypeInv, CrcInv, Kept,
           pc \in ReadSteps \cup WriteSteps \cup {"status", "sync"},
           pc' = "idle" \/ (pc \in ReadSteps \cup WriteSteps /\ pc' \in ReadSteps \cup WriteSteps)
    PROVE  CrcInv'
<1>1. /\ host'.type = host.type /\ host'.supports_crc = host.supports_crc
      /\ card'.kind = card.kind /\ card'.power = card.power /\ card'.crcOn = card.crcOn
      /\ ~host'.noinit => ~host.noinit
  BY TypeParts DEF Kept
<1>2. pc' \notin {"init op 1", "init op 2", "init ccs"}
  BY DEF ReadSteps, WriteSteps
<1>n. "idle" \notin Known1 /\ "idle" \notin Known2
  BY DEF Known1, Known2, LateInit, OpSteps, ReadSteps, WriteSteps
<1>3. pc' \in Known1 => pc \in ReadSteps \cup WriteSteps
  BY <1>n
<1>4. pc' \in Known2 => pc \in ReadSteps \cup WriteSteps
  BY <1>n
<1> QED BY <1>1, <1>2, <1>3, <1>4 DEF CrcInv, Known1, Known2

LEMMA UnmovedCrc ==
    ASSUME TypeInv, CrcInv, Kept, pc' = pc
    PROVE  CrcInv'
<1>1. ~host'.noinit => ~host.noinit
  BY TypeParts DEF Kept
<1> QED BY <1>1 DEF CrcInv, Kept

LEMMA InitCrcKept ==
    ASSUME TypeInv, AddressInv, pc \in InitSteps,
           host'.noinit \in {host.noinit, TRUE},
           pc' \in InitSteps \cup {"idle"},
           card'.crcOn => card'.kind.crc,
           card'.power = "off" => ~card'.crcOn,
           card'.power = "ready" /\ pc' \in {"init ccs"} \cup OpSteps \cup LateInit => (card'.crcOn => host'.supports_crc),
           card'.power = "ready" /\ pc' \in {"init op 1", "init op 2", "init ccs"} => card'.kind.v # "MMC",
           card'.power = "ready" /\ pc' \in LateInit => (card'.kind.v = "MMC" => host'.type = "CARD_MMC")
    PROVE  CrcInv'
<1>1. host'.noinit
  BY DEF AddressInv
<1>2. pc' \notin ReadSteps \cup WriteSteps
  BY DEF InitSteps, ReadSteps, WriteSteps
<1> QED BY <1>1, <1>2 DEF CrcInv

\* The steps before and after those that are listed.
LEMMA InitParts ==
    /\ "idle" \notin {"init ccs"} \cup OpSteps \cup LateInit
    /\ "init ccs" \notin OpSteps \cup LateInit
    /\ OpSteps \cap LateInit = {}
    /\ {"init op 1", "init op 2"} \subseteq OpSteps /\ "init op mmc" \in OpSteps
    /\ {"init", "init crc", "init if", "init ocr 1", "init ocr 2"} \cap ({"init ccs"} \cup OpSteps \cup LateInit) = {}
    /\ {"init ocr 1", "init ocr 2"} \subseteq EarlyInit \ OpSteps
BY DEF OpSteps, LateInit, EarlyInit, InitSteps

\* A card answers these in order only if it was sent the CRC it asks for.
LEMMA OpCondCrc ==
    /\ Token("APP_OP_COND", 0) = 0 => (card.crcOn => host.supports_crc) /\ card.kind.v # "MMC"
    /\ Token("APP_OP_COND", HCS) = 0 => (card.crcOn => host.supports_crc) /\ card.kind.v # "MMC"
    /\ Token("SEND_OP_COND", 0) = 0 => (card.crcOn => host.supports_crc)
<1>1. 255 # 0 /\ 9 # 0 /\ 5 # 0 /\ 4 # 0
  OBVIOUS
<1>2. Token("APP_OP_COND", 0) = 0 => (card.crcOn => host.supports_crc) /\ card.kind.v # "MMC"
  BY <1>1 DEF Token, NoToken, CrcError, Transfers
<1>3. Token("APP_OP_COND", HCS) = 0 => (card.crcOn => host.supports_crc) /\ card.kind.v # "MMC"
  BY <1>1 DEF Token, NoToken, CrcError, Transfers
<1>4. Token("SEND_OP_COND", 0) = 0 => (card.crcOn => host.supports_crc)
  BY <1>1 DEF Token, NoToken, CrcError, Transfers
<1> QED BY <1>2, <1>3, <1>4

\* A card that is ready was so before, or has just been made so.
LEMMA OpCrcs ==
    ASSUME TypeInv, CrcInv, pc \in OpSteps, NEW cmd, NEW arg,
           \/ cmd = "APP_OP_COND" /\ arg \in {0, HCS} /\ pc # "init op mmc"
           \/ cmd = "SEND_OP_COND" /\ arg = 0,
           card' = card \/ card' = Executed(cmd, arg)
    PROVE  /\ card'.kind = card.kind /\ card'.crcOn = card.crcOn
           /\ card'.crcOn => card'.kind.crc
           /\ card'.power = "off" => ~card'.crcOn
           /\ card'.power = "ready" => (card'.crcOn => host.supports_crc)
           /\ cmd = "APP_OP_COND" /\ card'.power = "ready" => card'.kind.v # "MMC"
<1>1. cmd \notin {"GO_IDLE_STATE", "CRC_ON_OFF"} \cup Transfers
  BY DEF Transfers
<1>2. /\ card'.kind = card.kind /\ card'.crcOn = card.crcOn
      /\ card'.crcOn => card'.kind.crc
      /\ card'.power = "off" => ~card'.crcOn
  BY <1>1, CommandCrc
<1>3. card'.power = "ready" => card.power = "ready" \/ Token(cmd, arg) = 0
  BY OpCondEffects
<1>4. Token(cmd, arg) = 0 => (card.crcOn => host.supports_crc) /\ (cmd = "APP_OP_COND" => card.kind.v # "MMC")
  BY OpCondCrc
<1>5. card.power = "ready" => (card.crcOn => host.supports_crc) /\ (cmd = "APP_OP_COND" => card.kind.v # "MMC")
  BY DEF CrcInv, OpSteps
<1> QED BY <1>2, <1>3, <1>4, <1>5

\* CRC_ON_OFF is accepted by the cards that know it.
LEMMA CrcEffect ==
    ASSUME TypeInv
    PROVE  /\ Executed("CRC_ON_OFF", 1).crcOn => card.crcOn \/ (card.kind.crc /\ card.power # "off")
           /\ Executed("CRC_ON_OFF", 1).power = card.power
           /\ Executed("CRC_ON_OFF", 1).kind = card.kind
<1>1. Executed("CRC_ON_OFF", 1).power = card.power /\ Executed("CRC_ON_OFF", 1).kind = card.kind
  BY TypeParts, Effects, Execution
<1>2. CASE Token("CRC_ON_OFF", 1) \notin {0, 1}
  BY <1>1, <1>2 DEF Executed
<1>3. CASE Token("CRC_ON_OFF", 1) \in {0, 1}
  <2>1. 255 \notin {0, 1} /\ 9 \notin {0, 1} /\ 5 \notin {0, 1} /\ 4 \notin {0, 1}
    OBVIOUS
  <2>2. card.kind.crc /\ card.power # "off"
    BY <1>3, <2>1 DEF Token, NoToken, CrcError, Transfers
  <2> QED BY <1>1, <2>2
<1> QED BY <1>2, <1>3

\* The card after GO_IDLE_STATE.
LEMMA IdleCrc ==
    ASSUME TypeInv, CrcInv, card' = card \/ card' = Executed("GO_IDLE_STATE", 0)
    PROVE  /\ card'.crcOn => card'.kind.crc
           /\ card'.power = "off" => ~card'.crcOn
           /\ card' = card \/ (card'.power = "idle" /\ ~card'.crcOn)
<1>1. Executed("GO_IDLE_STATE", 0) = [card EXCEPT !.power = "idle", !.crcOn = FALSE, !.mode = Tran]
  BY GoIdleToken DEF Executed, Transfers
<1>2. Executed("GO_IDLE_STATE", 0).crcOn = FALSE /\ Executed("GO_IDLE_STATE", 0).power = "idle"
  BY <1>1, TypeParts DEF CardStates
<1> QED BY <1>2 DEF CrcInv

\* A command of ff_sd_initialize that is sent again.
LEMMA InitRepeatCrcs ==
    ASSUME TypeInv, AddressInv, CrcInv, pc \in InitSteps, NEW cmd, NEW arg, Repeats(cmd, arg),
           \/ pc = "init" /\ cmd = "GO_IDLE_STATE" /\ arg = 0
           \/ pc = "init crc" /\ cmd = "CRC_ON_OFF" /\ arg = 1
           \/ pc \in OpSteps /\ cmd = "APP_OP_COND" /\ arg \in {0, HCS} /\ pc # "init op mmc"
           \/ pc \in OpSteps /\ cmd = "SEND_OP_COND" /\ arg = 0 /\ pc = "init op mmc"
           \/ cmd \notin Special \cup Transfers
    PROVE  CrcInv'
<1>1. pc' = pc /\ host' = host /\ (card' = card \/ card' = Executed(cmd, arg))
  BY TypeParts, Repeating
<1>2. CASE pc = "init" /\ cmd = "GO_IDLE_STATE" /\ arg = 0
  <2>1. (card'.crcOn => card'.kind.crc) /\ (card'.power = "off" => ~card'.crcOn)
    BY <1>1, <1>2, IdleCrc
  <2> QED BY <1>1, <1>2, <2>1, InitParts, InitCrcKept
<1>3. CASE pc = "init crc" /\ cmd = "CRC_ON_OFF" /\ arg = 1
  <2>1. (card'.crcOn => card'.kind.crc) /\ (card'.power = "off" => ~card'.crcOn)
    BY <1>1, <1>3, CrcEffect DEF CrcInv
  <2> QED BY <1>1, <1>3, <2>1, InitParts, InitCrcKept
<1>4. CASE /\ pc \in OpSteps
           /\ \/ cmd = "APP_OP_COND" /\ arg \in {0, HCS} /\ pc # "init op mmc"
              \/ cmd = "SEND_OP_COND" /\ arg = 0 /\ pc = "init op mmc"
  <2>1. /\ card'.crcOn => card'.kind.crc
        /\ card'.power = "off" => ~card'.crcOn
        /\ card'.power = "ready" => (card'.crcOn => host.supports_crc)
        /\ cmd = "APP_OP_COND" /\ card'.power = "ready" => card'.kind.v # "MMC"
    BY <1>1, <1>4, OpCrcs
  <2>2. pc' \notin LateInit /\ pc' # "init ccs"
    BY <1>1, <1>4, InitParts
  <2>3. pc' \in {"init op 1", "init op 2", "init ccs"} => cmd = "APP_OP_COND"
    BY <1>1, <1>4, <2>2
  <2> QED BY <1>1, <2>1, <2>2, <2>3, InitCrcKept
<1>5. CASE cmd \notin Special \cup Transfers
  BY <1>5, RepeatKept, UnmovedCrc
<1> QED BY <1>2, <1>3, <1>4, <1>5

\* Each step of ff_sd_initialize keeps the agreement, whichever answers were lost.
LEMMA InitCrcs ==
    ASSUME TypeInv, AddressInv, CrcInv, ff_sd_initialize
    PROVE  CrcInv'
<1>a. pc \in InitSteps
  BY InitMoves DEF InitMove
<1>1. CASE \E cmd, arg :
            /\ Repeats(cmd, arg)
            /\ \/ pc = "init" /\ cmd = "GO_IDLE_STATE" /\ arg = 0
               \/ pc = "init crc" /\ cmd = "CRC_ON_OFF" /\ arg = 1
               \/ pc \in OpSteps /\ cmd = "APP_OP_COND" /\ arg \in {0, HCS} /\ pc # "init op mmc"
               \/ pc \in OpSteps /\ cmd = "SEND_OP_COND" /\ arg = 0 /\ pc = "init op mmc"
               \/ cmd \notin Special \cup Transfers
  BY <1>1, <1>a, InitRepeatCrcs
<1>2. CASE ~\E cmd, arg :
            /\ Repeats(cmd, arg)
            /\ \/ pc = "init" /\ cmd = "GO_IDLE_STATE" /\ arg = 0
               \/ pc = "init crc" /\ cmd = "CRC_ON_OFF" /\ arg = 1
               \/ pc \in OpSteps /\ cmd = "APP_OP_COND" /\ arg \in {0, HCS} /\ pc # "init op mmc"
               \/ pc \in OpSteps /\ cmd = "SEND_OP_COND" /\ arg = 0 /\ pc = "init op mmc"
               \/ cmd \notin Special \cup Transfers
  \* None of them is sent again.
  <2>r. /\ InitIdle => ~Repeats("GO_IDLE_STATE", 0)
        /\ InitCrc => ~Repeats("CRC_ON_OFF", 1)
        /\ InitIf => ~Repeats("SEND_IF_COND", 0)
        /\ ~Repeats("READ_OCR", 0) /\ ~Repeats("APP_CLR_CARD_DETECT", 0) /\ ~Repeats("SET_BLOCKLEN", 0)
        /\ ~Repeats("SEND_CSD", 0)
        /\ InitOp2 => ~Repeats("APP_OP_COND", HCS)
        /\ InitOp1 => ~Repeats("APP_OP_COND", 0)
        /\ InitMmc => ~Repeats("SEND_OP_COND", 0)
    <3>1. InitIdle => pc = "init"
      BY InitIdleForm
    <3>2. InitCrc => pc = "init crc"
      BY InitCrcForm
    <3>3. {"SEND_IF_COND", "READ_OCR", "APP_CLR_CARD_DETECT", "SET_BLOCKLEN", "SEND_CSD"}
            \cap (Special \cup Transfers) = {}
      BY DEF Special, Transfers
    <3>4. InitOp2 => pc = "init op 2"
      BY ProbeForms DEF Probed
    <3>5. InitOp1 => pc = "init op 1"
      BY InitOp1Form
    <3>6. InitMmc => pc = "init op mmc"
      BY InitMmcForm
    <3> QED BY <1>2, <3>1, <3>2, <3>3, <3>4, <3>5, <3>6, InitParts
  <2>a. pc \in InitSteps /\ pc' \in InitSteps \cup {"idle"}
    BY InitMoves DEF InitMove
  <2>b. /\ card.crcOn => card.kind.crc
        /\ card.power = "off" => ~card.crcOn
    BY DEF CrcInv
  <2>c. pc \in LateInit /\ card.power = "ready" =>
          (card.crcOn => host.supports_crc) /\ (card.kind.v = "MMC" => host.type = "CARD_MMC")
    BY DEF CrcInv
  \* A step that ends before the type of the card is known.
  <2>1. ASSUME card'.crcOn => card'.kind.crc, card'.power = "off" => ~card'.crcOn,
               host'.noinit \in {host.noinit, TRUE},
               pc' \notin {"init ccs"} \cup OpSteps \cup LateInit \/ card'.power # "ready"
        PROVE  CrcInv'
    BY <2>a, <2>1, InitParts, InitCrcKept
  <2>2. ASSUME NEW cmd, NEW arg, NEW wanted, NEW next, Walked(cmd, arg, wanted, next),
               cmd \notin {"GO_IDLE_STATE", "CRC_ON_OFF"} \cup Transfers
        PROVE  /\ card'.kind = card.kind /\ card'.crcOn = card.crcOn
               /\ card'.crcOn => card'.kind.crc
               /\ card'.power = "off" => ~card'.crcOn
               /\ host'.noinit \in {host.noinit, TRUE} /\ host'.supports_crc = host.supports_crc
               /\ pc' \in {next, "idle"}
    <3>1. card' = card \/ card' = Executed(cmd, arg)
      BY <2>2 DEF Walked
    <3> QED BY <2>2, <3>1, CommandCrc DEF Walked, GivesUpCard
  \* A step after the type of the card was set.
  <2>3. ASSUME NEW step \in LateInit, NEW cmd, NEW arg, NEW wanted, NEW next \in LateInit,
               pc = step, Walked(cmd, arg, wanted, next), pc' = next => host'.type = host.type,
               cmd \notin {"GO_IDLE_STATE", "CRC_ON_OFF", "APP_OP_COND", "SEND_OP_COND"} \cup Transfers
        PROVE  CrcInv'
    <3>1. /\ card'.kind = card.kind /\ card'.crcOn = card.crcOn
          /\ card'.crcOn => card'.kind.crc
          /\ card'.power = "off" => ~card'.crcOn
          /\ host'.noinit \in {host.noinit, TRUE} /\ host'.supports_crc = host.supports_crc
          /\ pc' \in {next, "idle"}
      BY <2>2, <2>3
    <3>2. card'.power = card.power
      BY <2>3, WalkedCard
    <3>4. /\ pc' \notin {"init ccs"} \cup OpSteps /\ pc' \notin {"init op 1", "init op 2", "init ccs"}
          /\ pc' \in LateInit => pc' = next
      BY <2>3, <3>1, InitParts
    <3> QED BY <2>a, <2>c, <2>3, <3>1, <3>2, <3>4, InitCrcKept
  <2>4. CASE InitIdle
    <3>1. pc = "init" /\ Walked("GO_IDLE_STATE", 0, 1, "init crc")
      BY <2>r, <2>4, InitIdleStep
    <3>4. (card'.crcOn => card'.kind.crc) /\ (card'.power = "off" => ~card'.crcOn)
      BY <3>1, IdleCrc DEF Walked
    <3>5. host'.noinit \in {host.noinit, TRUE} /\ pc' \in {"init crc", "idle"}
      BY <3>1 DEF Walked, GivesUpCard
    <3>6. pc' \notin {"init ccs"} \cup OpSteps \cup LateInit
      BY <3>5, InitParts
    <3> QED BY <2>1, <3>4, <3>5, <3>6
  <2>5. CASE InitCrc
    <3>1. /\ card'.kind = card.kind /\ host'.noinit \in {host.noinit, TRUE} /\ pc' \in {"init if", "idle"}
          /\ card' = card \/ card' = Executed("CRC_ON_OFF", 1)
      BY <2>r, <2>5, InitCrcStep DEF GivesUpCard
    <3>2. (card'.crcOn => card'.kind.crc) /\ (card'.power = "off" => ~card'.crcOn)
      BY <2>b, <3>1, CrcEffect
    <3>3. pc' \notin {"init ccs"} \cup OpSteps \cup LateInit
      BY <3>1, InitParts
    <3> QED BY <2>1, <3>1, <3>2, <3>3
  <2>6. CASE InitIf
    <3>1. /\ host'.noinit \in {host.noinit, TRUE} /\ pc' \in {"init ocr 1", "init ocr 2"}
          /\ card' = card \/ card' = Executed("SEND_IF_COND", 0)
      BY <2>r, <2>6, InitIfStep
    <3>2. "SEND_IF_COND" \notin {"GO_IDLE_STATE", "CRC_ON_OFF"} \cup Transfers
      BY DEF Transfers
    <3>3. (card'.crcOn => card'.kind.crc) /\ (card'.power = "off" => ~card'.crcOn)
      BY <3>1, <3>2, CommandCrc
    <3>4. pc' \notin {"init ccs"} \cup OpSteps \cup LateInit
      BY <3>1, InitParts
    <3> QED BY <2>1, <3>1, <3>3, <3>4
  <2>7. CASE InitVoltage \/ InitSlow
    <3>1. /\ card' = card /\ host'.noinit = host.noinit /\ host'.supports_crc = host.supports_crc
          /\ pc' = "idle" \/ (pc = "init op 1" /\ pc' = "init op mmc")
      BY <2>7, InitOddStep
    <3>2. CASE pc' = "idle"
      BY <2>1, <2>b, <3>1, <3>2, InitParts
    <3>3. CASE pc = "init op 1" /\ pc' = "init op mmc"
      <4>1. card.power = "ready" => (card.crcOn => host.supports_crc)
        BY <3>3 DEF CrcInv, OpSteps
      <4>2. pc' \notin LateInit /\ pc' \notin {"init op 1", "init op 2", "init ccs"}
        BY <3>3, InitParts
      <4> QED BY <2>a, <2>b, <3>1, <4>1, <4>2, InitCrcKept
    <3> QED BY <3>1, <3>2, <3>3
  <2>8. CASE InitOcr2 \/ InitOcr1
    <3>1. \/ pc = "init ocr 2" /\ Walked("READ_OCR", 0, 1, "init op 2")
          \/ pc = "init ocr 1" /\ Walked("READ_OCR", 0, 1, "init op 1")
      BY <2>r, <2>8, ProbeForms, ProbedStep
    <3>2. "READ_OCR" \notin {"GO_IDLE_STATE", "CRC_ON_OFF", "APP_OP_COND", "SEND_OP_COND"} \cup Transfers
      BY DEF Transfers
    <3>3. /\ card'.crcOn => card'.kind.crc
          /\ card'.power = "off" => ~card'.crcOn
          /\ host'.noinit \in {host.noinit, TRUE}
      BY <2>2, <3>1, <3>2
    <3>4. card.power # "ready"
      BY <3>1, InitParts DEF AddressInv
    <3>5. card'.power = card.power
      BY <3>1, <3>2, WalkedCard
    <3> QED BY <2>1, <3>3, <3>4, <3>5
  <2>9. CASE InitOp2
    <3>1. pc = "init op 2" /\ pc \in OpSteps /\ Walked("APP_OP_COND", HCS, 0, "init ccs")
      BY <2>r, <2>9, ProbeForms, ProbedStep DEF OpSteps
    <3>2. card' = card \/ card' = Executed("APP_OP_COND", HCS)
      BY <3>1 DEF Walked
    <3>3. /\ card'.crcOn => card'.kind.crc
          /\ card'.power = "off" => ~card'.crcOn
          /\ card'.power = "ready" => (card'.crcOn => host.supports_crc)
          /\ card'.power = "ready" => card'.kind.v # "MMC"
      BY <3>1, <3>2, OpCrcs
    <3>4. /\ host'.noinit \in {host.noinit, TRUE} /\ host'.supports_crc = host.supports_crc
          /\ pc' \in {"init ccs", "idle"}
      BY <3>1 DEF Walked, GivesUpCard
    <3>5. pc' \notin LateInit
      BY <3>4, InitParts
    <3> QED BY <2>a, <3>3, <3>4, <3>5, InitCrcKept
  <2>10. CASE InitCcs
    <3>1. /\ pc = "init ccs" /\ Walked("READ_OCR", 0, 0, "init detect")
      BY <2>r, <2>10, InitCcsStep
    <3>2. "READ_OCR" \notin {"GO_IDLE_STATE", "CRC_ON_OFF"} \cup Transfers
      BY DEF Transfers
    <3>3. /\ card'.kind = card.kind /\ card'.crcOn = card.crcOn
          /\ card'.crcOn => card'.kind.crc
          /\ card'.power = "off" => ~card'.crcOn
          /\ host'.noinit \in {host.noinit, TRUE} /\ host'.supports_crc = host.supports_crc
          /\ pc' \in {"init detect", "idle"}
      BY <2>2, <3>1, <3>2
    <3>4. card'.power = card.power
      BY <3>1, PlainCommands, WalkedCard
    <3>5. card.power = "ready" => (card.crcOn => host.supports_crc) /\ card.kind.v # "MMC"
      BY <3>1 DEF CrcInv
    <3>6. pc' \notin {"init op 1", "init op 2", "init ccs"}
      BY <3>3
    <3> QED BY <2>a, <3>3, <3>4, <3>5, <3>6, InitCrcKept
  <2>11. CASE InitOp1
    <3>1. /\ pc = "init op 1" /\ pc \in OpSteps
          /\ host'.supports_crc = host.supports_crc /\ host'.noinit \in {host.noinit, TRUE}
          /\ card' = card \/ card' = Executed("APP_OP_COND", 0)
          /\ pc' \in {"init detect", "init op mmc"}
      BY <2>r, <2>11, InitOp1Step DEF OpSteps
    <3>2. /\ card'.crcOn => card'.kind.crc
          /\ card'.power = "off" => ~card'.crcOn
          /\ card'.power = "ready" => (card'.crcOn => host.supports_crc)
          /\ card'.power = "ready" => card'.kind.v # "MMC"
      BY <3>1, OpCrcs
    <3>3. pc' \notin {"init op 1", "init op 2", "init ccs"}
      BY <3>1
    <3> QED BY <2>a, <3>1, <3>2, <3>3, InitCrcKept
  <2>12. CASE InitMmc
    <3>1. /\ pc = "init op mmc" /\ pc \in OpSteps
          /\ host'.supports_crc = host.supports_crc /\ host'.noinit \in {host.noinit, TRUE}
          /\ card' = card \/ card' = Executed("SEND_OP_COND", 0)
          /\ (pc' = "init detect" /\ host'.type = "CARD_MMC") \/ pc' = "init op mmc"
      BY <2>r, <2>12, InitMmcStep DEF OpSteps
    <3>2. /\ card'.crcOn => card'.kind.crc
          /\ card'.power = "off" => ~card'.crcOn
          /\ card'.power = "ready" => (card'.crcOn => host.supports_crc)
      BY <3>1, OpCrcs
    <3>3. pc' \notin {"init op 1", "init op 2", "init ccs"} /\ "init op mmc" \notin LateInit
      BY <3>1, InitParts
    <3> QED BY <2>a, <3>1, <3>2, <3>3, InitCrcKept
  <2>13. ASSUME NEW step \in LateInit, NEW next \in LateInit, pc = step, Continue(next, host),
                UNCHANGED <<data, try, card, faults>>
         PROVE  CrcInv'
    <3>1. pc' = next /\ host' = host /\ card' = card
      BY <2>13, InitSkipStep
    <3>2. pc' \notin {"init op 1", "init op 2", "init ccs"} /\ pc' \notin OpSteps
      BY <2>13, <3>1, InitParts
    <3> QED BY <2>a, <2>b, <2>c, <2>13, <3>1, <3>2, InitCrcKept
  <2>14. CASE InitDetect
    <3>1. \/ pc = "init detect" /\ Continue("init block", host) /\ UNCHANGED <<data, try, card, faults>>
          \/ Probed("init detect", "APP_CLR_CARD_DETECT", 0, 0, "init block")
      BY <2>14, ProbeForms
    <3>2. "init detect" \in LateInit /\ "init block" \in LateInit
          /\ "APP_CLR_CARD_DETECT" \notin {"GO_IDLE_STATE", "CRC_ON_OFF", "APP_OP_COND", "SEND_OP_COND"} \cup Transfers
      BY DEF LateInit, Transfers
    <3>3. CASE Probed("init detect", "APP_CLR_CARD_DETECT", 0, 0, "init block")
      <4>1. /\ pc = "init detect" /\ Walked("APP_CLR_CARD_DETECT", 0, 0, "init block")
            /\ pc' = "init block" => host'.type = host.type
        BY <2>r, <3>3, ProbedStep
      <4> QED BY <2>3, <3>2, <4>1
    <3> QED BY <2>13, <3>1, <3>2, <3>3
  <2>15. CASE InitBlockLen
    <3>1. \/ pc = "init block" /\ Continue("init csd", host) /\ UNCHANGED <<data, try, card, faults>>
          \/ Probed("init block", "SET_BLOCKLEN", 0, 0, "init csd")
      BY <2>15, ProbeForms
    <3>2. "init block" \in LateInit /\ "init csd" \in LateInit
          /\ "SET_BLOCKLEN" \notin {"GO_IDLE_STATE", "CRC_ON_OFF", "APP_OP_COND", "SEND_OP_COND"} \cup Transfers
      BY DEF LateInit, Transfers
    <3>3. CASE Probed("init block", "SET_BLOCKLEN", 0, 0, "init csd")
      <4>1. /\ pc = "init block" /\ Walked("SET_BLOCKLEN", 0, 0, "init csd")
            /\ pc' = "init csd" => host'.type = host.type
        BY <2>r, <3>3, ProbedStep
      <4> QED BY <2>3, <3>2, <4>1
    <3> QED BY <2>13, <3>1, <3>2, <3>3
  <2>16. CASE InitSectors
    <3>1. /\ pc = "init csd" /\ pc' = "idle" /\ host'.type = host.type /\ host'.supports_crc = host.supports_crc
          /\ card' = card \/ card' = Executed("SEND_CSD", 0)
      BY <2>r, <2>16, InitSectorsStep
    <3>2. "SEND_CSD" \notin {"GO_IDLE_STATE", "CRC_ON_OFF"} \cup Transfers /\ pc \in LateInit
      BY <3>1 DEF Transfers, LateInit
    <3>3. /\ card'.kind = card.kind /\ card'.crcOn = card.crcOn
          /\ card'.crcOn => card'.kind.crc
          /\ card'.power = "off" => ~card'.crcOn
      BY <3>1, <3>2, CommandCrc
    <3>4. card'.power = card.power
      BY <3>1, PlainCommands, CommandPower
    <3> QED BY <2>c, <3>1, <3>2, <3>3, <3>4 DEF CrcInv
  <2> QED BY <2>4, <2>5, <2>6, <2>7, <2>8, <2>9, <2>10, <2>11, <2>12, <2>14, <2>15, <2>16
          DEF ff_sd_initialize
<1> QED BY <1>1, <1>2

LEMMA TransferCrcs ==
    ASSUME TypeInv, CrcInv,
           \/ ReadSelect \/ ReadCommand \/ ReadGood \/ ReadBad \/ ReadStop
           \/ WriteErase \/ WriteSelect \/ WriteCommand \/ WriteSingle \/ WriteMultiple
           \/ WriteWait \/ WriteStop \/ WriteNumber \/ WriteStatus
    PROVE  CrcInv'
<1>a. {"read", "read command", "read bytes", "read stop"} = ReadSteps
  BY DEF ReadSteps
<1>b. {"write erase", "write", "write command", "write bytes", "write wait", "write stop",
       "write number", "write status"} = WriteSteps
  BY DEF WriteSteps
<1>1. CASE \/ Repeats(ReadTransfer, Place) \/ Repeats(WriteTransfer, Place) \/ Repeats("STOP_TRANSMISSION", 0)
           \/ Repeats("SET_WR_BLK_ERASE_COUNT", 0) \/ Repeats("SEND_NUM_WR_BLOCKS", 0)
           \/ Repeats("SEND_STATUS", 0)
  <2>1. {ReadTransfer, WriteTransfer, "STOP_TRANSMISSION", "SET_WR_BLK_ERASE_COUNT", "SEND_NUM_WR_BLOCKS",
         "SEND_STATUS"} \cap Special = {}
    BY DEF ReadTransfer, WriteTransfer, TransferCommand, Special
  <2> QED BY <1>1, <2>1, RepeatKept, UnmovedCrc
<1>2. CASE ReadSelect
  BY <1>2, <1>a, SelectStep, CrcKept DEF ReadSelect, Errs
<1>3. CASE ReadCommand /\ ~Repeats(ReadTransfer, Place)
  BY <1>3, <1>a, ReadCommandStep, CrcKept DEF Errs
<1>4. CASE ReadGood
  BY <1>4, <1>a, ReadGoodStep, CrcKept
<1>5. CASE ReadBad
  BY <1>5, <1>a, ReadBadStep, CrcKept DEF Errs
<1>6. CASE ReadStop /\ ~Repeats("STOP_TRANSMISSION", 0)
  BY <1>6, <1>a, ReadStopStep, CrcKept DEF Errs
<1>7. CASE WriteErase /\ ~Repeats("SET_WR_BLK_ERASE_COUNT", 0)
  BY <1>7, <1>b, WriteEraseStep, CrcKept DEF Errs
<1>8. CASE WriteSelect
  BY <1>8, <1>b, SelectStep, CrcKept DEF WriteSelect, Errs
<1>9. CASE WriteCommand /\ ~Repeats(WriteTransfer, Place)
  BY <1>9, <1>b, WriteCommandStep, CrcKept DEF Errs
<1>10. CASE WriteSingle
  BY <1>10, <1>b, WriteSingleStep, CrcKept DEF Errs
<1>11. CASE WriteMultiple
  BY <1>11, <1>b, WriteMultipleStep, CrcKept
<1>12. CASE WriteWait
  BY <1>12, <1>b, WriteWaitStep, CrcKept DEF Errs
<1>13. CASE WriteStop /\ ~Repeats("STOP_TRANSMISSION", 0)
  BY <1>13, <1>b, WriteStopStep, CrcKept DEF Errs
<1>14. CASE WriteNumber /\ ~Repeats("SEND_NUM_WR_BLOCKS", 0)
  BY <1>14, <1>b, WriteNumberStep, CrcKept DEF Errs
<1>15. CASE WriteStatus /\ ~Repeats("SEND_STATUS", 0)
  BY <1>15, <1>b, WriteStatusStep, CrcKept DEF Errs
<1> QED BY <1>1, <1>2, <1>3, <1>4, <1>5, <1>6, <1>7, <1>8, <1>9, <1>10, <1>11, <1>12, <1>13, <1>14, <1>15

\* Every step does.
LEMMA NextCrc ==
    ASSUME TypeInv, AddressInv, CrcInv, [Next]_vars
    PROVE  CrcInv'
<1>1. CASE UNCHANGED vars
  <2>1. pc' = pc /\ host' = host /\ card' = card
    BY <1>1, Stuttering
  <2> QED BY <2>1 DEF CrcInv
<1>2. CASE ff_sd_status \/ ff_sd_ioctl_Sync
  <2>1. CASE ff_sd_status /\ Repeats("SEND_STATUS", 0)
    <3>1. "SEND_STATUS" \notin Special
      BY DEF Special
    <3> QED BY <2>1, <3>1, RepeatKept, UnmovedCrc
  <2>2. CASE ff_sd_status /\ ~Repeats("SEND_STATUS", 0)
    BY <2>2, StatusStep, CrcKept
  <2>3. CASE ff_sd_ioctl_Sync
    BY <2>3, SyncStep, CrcKept
  <2> QED BY <1>2, <2>1, <2>2, <2>3
<1>3. CASE EndBegin
  <2>0. pc = "end" /\ {"end", "idle"} \cap (Known1 \cup Known2) = {}
    BY <1>3, OtherForms DEF Known1, Known2, LateInit, OpSteps, ReadSteps, WriteSteps
  <2>1. CASE Repeats("GO_IDLE_STATE", 0)
    <3>1. pc' = pc /\ host' = host /\ (card' = card \/ card' = Executed("GO_IDLE_STATE", 0))
      BY <2>1, TypeParts, Repeating
    <3>2. /\ card'.crcOn => card'.kind.crc
          /\ card'.power = "off" => ~card'.crcOn
          /\ card' = card \/ (card'.power = "idle" /\ ~card'.crcOn)
      BY <3>1, IdleCrc
    <3>3. CASE card' = card
      BY <3>1, <3>3 DEF CrcInv
    <3>4. CASE card'.power = "idle" /\ ~card'.crcOn
      BY <3>4 DEF CrcInv
    <3> QED BY <3>2, <3>3, <3>4
  <2>2. CASE ~Repeats("GO_IDLE_STATE", 0)
    <3>1. /\ pc' = "idle" /\ host'.noinit
          /\ card' = card \/ ~card'.crcOn
      BY <1>3, <2>2, EndStep DEF NewHost
    <3> QED BY <2>0, <3>1 DEF CrcInv, Known1, Known2
  <2> QED BY <2>1, <2>2
<1>4. CASE Called
  <2>1. /\ <<op'.kind, pc'>> \in Calls /\ host' = host /\ card' = card
        /\ op'.kind \in {"read", "write"} => ~host.noinit
    BY <1>4, Calling
  <2>2. pc' \notin {"init ccs"} \cup OpSteps \cup LateInit /\ pc' \notin {"init op 1", "init op 2", "init ccs"}
    BY <2>1 DEF Calls, LateInit, OpSteps
  <2>3. pc' \in ReadSteps \cup WriteSteps => op'.kind \in {"read", "write"}
    BY <2>1 DEF Calls, ReadSteps, WriteSteps
  <2> QED BY <2>1, <2>2, <2>3 DEF CrcInv
<1>5. CASE Swap
  <2>1. card'.power = "off" /\ ~card'.crcOn
    BY <1>5, Swapping
  <2> QED BY <2>1 DEF CrcInv
<1> QED BY <1>1, <1>2, <1>3, <1>4, <1>5, InitCrcs, TransferCrcs DEF Next

LEMMA InitialCrc ==
    ASSUME Init
    PROVE  CrcInv
<1>1. card.power = "off" /\ ~card.crcOn
  BY NewCardTyped DEF Init
<1> QED BY <1>1 DEF CrcInv

\* A card in use that checks the CRC is sent it by sdCommand, and an MMC is treated as one.
THEOREM CrcInvariant == Spec => []CrcInv
<1>1. Init => CrcInv
  BY InitialCrc
<1>2. TypeInv /\ AddressInv /\ CrcInv /\ [Next]_vars => CrcInv'
  BY NextCrc
<1> QED BY <1>1, <1>2, TypeInvariant, Addresses, PTL DEF Spec

-----------------------------------------------------------------------------
\* Faults: a call that nothing else disturbs survives two losses.
LEMMA NotCalm ==
    ASSUME ~Calm'
    PROVE  FaultInv'
BY DEF FaultInv, FaultsTolerated, Calm

LEMMA Spoiling ==
    ASSUME spoilt \in BOOLEAN, spoilt' \in BOOLEAN, spoilt => spoilt'
    PROVE  spoilt' \in {spoilt, TRUE}
<1>1. CASE spoilt'
  <2>1. spoilt' = TRUE
    BY <1>1
  <2> QED BY <2>1
<1>2. CASE ~spoilt'
  <2>1. spoilt' = FALSE /\ spoilt = FALSE
    BY <1>2
  <2> QED BY <2>1
<1> QED BY <1>1, <1>2

\* Two losses are not three.
LEMMA Losses ==
    /\ \A t, l : t \in 0 .. 2 /\ l \in Nat /\ t <= l /\ l <= 2 => t <= 2 /\ 0 <= l
    /\ \A l \in Nat : l + 1 <= 2 => l <= 2
    /\ \A t \in 0 .. 2, l \in Nat : t <= l /\ t = 2 => ~(l + 1 <= 2)
    /\ \A n, t, l \in Nat : n + t <= l => /\ t <= l /\ n <= l /\ n + 0 <= l /\ n <= l + 1
                                          /\ n + (t + 1) <= l + 1 /\ n + 0 <= l + 1
                                          /\ (n + 1) + 0 <= l + 1 /\ 0 + 0 <= l
    /\ \A t, l \in Nat : t <= l => t + 1 <= l + 1 /\ 0 <= l /\ 0 <= l + 1
    /\ \A n, l \in Nat : n <= l /\ ~(n + 1 < 3) => ~(l + 1 <= 2)
    /\ \A n, l \in Nat : n <= l /\ l <= 2 => n # 3
    /\ \A m, n \in Nat : m \in 0 .. n => m \in Nat
    /\ \A l \in Nat : 0 + 0 <= l
OBVIOUS

\* A call that is calm after a step was calm before it.
LEMMA CalmBefore ==
    ASSUME TypeInv, op' = op, lost' \in {lost, lost + 1}, spoilt' \in {spoilt, TRUE}, Calm'
    PROVE  Calm /\ ~spoilt' /\ lost' <= 2
<1>1. op.able
  BY DEF Calm
<1>2. ~spoilt' /\ ~spoilt
  <2>1. ~spoilt'
    BY DEF Calm
  <2>2. spoilt' = spoilt
    BY <2>1
  <2> QED BY <2>1, <2>2
<1>3. lost' <= 2
  BY DEF Calm
<1>4. lost \in Nat
  BY TypeParts, CardAssumption, Losses
<1>5. lost <= 2
  BY <1>3, <1>4, Losses
<1> QED BY <1>1, <1>2, <1>3, <1>5 DEF Calm

\* A command does not fail when every attempt used up was one of at most two losses.
LEMMA NotFailed ==
    ASSUME TypeInv, Calm', try <= lost, NEW cmd, NEW arg, NEW wanted, Failed(cmd, arg, wanted)
    PROVE  Token(cmd, arg) # wanted
<1>1. ~spoilt'
  BY DEF Calm
<1>2. lost \in Nat /\ try \in 0 .. 2
  BY TypeParts, CardAssumption, Losses
<1>3. lost' <= 2
  BY DEF Calm
<1>4. ~(lost' = lost + 1 /\ try = 2)
  BY <1>2, <1>3, Losses
<1> QED BY <1>1, <1>4 DEF Failed

\* What an initialised card answers.
LEMMA ReadyTokens ==
    ASSUME card.power = "ready", card.crcOn => host.supports_crc
    PROVE  /\ card.mode # Tran => Token("STOP_TRANSMISSION", 0) = 0
           /\ Token("SEND_STATUS", 0) = 0
           /\ card.mode = Tran /\ card.kind.v # "MMC" => Token("SET_WR_BLK_ERASE_COUNT", 0) = 0
           /\ \A cmd \in Transfers : \A arg : card.mode = Tran /\ Addressed(arg) \in Sectors => Token(cmd, arg) = 0
<1>1. card.mode # Tran => Token("STOP_TRANSMISSION", 0) = 0
  BY DEF Token, R1, Transfers
<1>2. Token("SEND_STATUS", 0) = 0
  BY DEF Token, R1, Transfers
<1>3. card.mode = Tran /\ card.kind.v # "MMC" => Token("SET_WR_BLK_ERASE_COUNT", 0) = 0
  BY DEF Token, R1, Transfers
<1>4. ASSUME NEW cmd \in Transfers, NEW arg, card.mode = Tran, Addressed(arg) \in Sectors
      PROVE  Token(cmd, arg) = 0
  BY <1>4 DEF Token, Transfers
<1> QED BY <1>1, <1>2, <1>3, <1>4

LEMMA ReadyCard ==
    ASSUME TypeInv, CrcInv, pc \in ReadSteps \cup WriteSteps, card.power = "ready"
    PROVE  /\ card.crcOn => host.supports_crc
           /\ card.kind.v = "MMC" => host.type = "CARD_MMC"
BY DEF CrcInv

\* The sector of a block that is still to come.
LEMMA TransferToken ==
    ASSUME TypeInv, AddressInv, CrcInv, pc \in ReadSteps \cup WriteSteps, Counted, done # op.range.count,
           card.power = "ready", card.mode = Tran,
           NEW cmd \in Transfers, NEW arg, arg = Argument(op.range.sector + done)
    PROVE  Token(cmd, arg) = 0
<1>1. Addressed(arg) = op.range.sector + done
  BY Commanded
<1>2. /\ op.range.sector \in Nat /\ op.range.count \in Nat /\ done \in Nat /\ NSectors \in Nat
      /\ op.range.sector + op.range.count <= NSectors /\ done <= op.range.count
  BY CallTyped, CallCounted, CardAssumption
<1>3. op.range.sector + done \in Sectors
  BY <1>2, Numbers DEF Sectors
<1> QED BY <1>1, <1>3, ReadyCard, ReadyTokens

LEMMA SomeSector == \A s \in Sectors : s # Tran /\ s + 1 # Tran
BY DEF Sectors, Tran

\* What a step of ff_sd_read has to keep.
LEMMA ReadFault ==
    ASSUME TypeInv', op'.kind = "read",
           Calm' => \/ pc' \in ReadSteps /\ ReadCalm'
                    \/ pc' = "idle" /\ result' = "RES_OK"
    PROVE  FaultInv'
<1>1. pc' \notin InitSteps /\ pc' \notin WriteSteps
  BY DEF TypeInv, CallSteps
<1>2. FaultsTolerated'
  <2>1. "idle" \notin ReadSteps
    BY DEF ReadSteps
  <2> QED BY <2>1 DEF FaultsTolerated, Returned, Calm
<1>3. pc' \in ReadSteps /\ Calm' => ReadCalm'
  <2>1. "idle" \notin ReadSteps
    BY DEF ReadSteps
  <2> QED BY <2>1
<1> QED BY <1>1, <1>2, <1>3 DEF FaultInv

\* A loss more than before, or not.
LEMMA StillLost ==
    ASSUME TypeInv, f + try <= lost, f' = f, try' = 0, lost' \in {lost, lost + 1}
    PROVE  f' + try' <= lost'
<1>1. f \in Nat /\ try \in Nat /\ lost \in Nat
  BY TypeParts, CardAssumption, Losses
<1> QED BY <1>1, Losses

\* Each step of ff_sd_read keeps it.
LEMMA ReadFaults ==
    ASSUME TypeInv, TypeInv', AddressInv, BusInv, CrcInv, FaultInv,
           ReadSelect \/ ReadCommand \/ ReadGood \/ ReadBad \/ ReadStop
    PROVE  FaultInv'
<1>c. /\ pc \in ReadSteps \cup WriteSteps /\ pc \in ReadSteps /\ op' = op
      /\ op.kind = "read" /\ op'.kind = "read"
  BY ReadCalls
<1>a. {"read", "read command", "read bytes", "read stop"} = ReadSteps /\ "idle" \notin ReadSteps
  BY DEF ReadSteps
<1>n. f \in Nat /\ try \in Nat /\ lost \in Nat /\ try \in 0 .. 2
  BY TypeParts, CardAssumption, Losses
\* Before a step after which the call is calm it was calm.
<1>b. ASSUME lost' \in {lost, lost + 1}, spoilt' \in {spoilt, TRUE}, Calm'
      PROVE  /\ ReadCalm /\ ~spoilt' /\ lost <= 2 /\ lost' <= 2
             /\ try <= lost /\ f <= lost
             /\ card.crcOn => host.supports_crc
             /\ Intact
  <2>1. Calm /\ ~spoilt' /\ lost' <= 2
    BY <1>b, <1>c, CalmBefore
  <2>2. ReadCalm
    BY <1>c, <2>1 DEF FaultInv
  <2>3. try <= lost /\ f <= lost
    BY <1>n, <2>2, Losses DEF ReadCalm
  <2>4. lost <= 2 /\ Intact
    BY <2>1 DEF Calm, Intact
  <2> QED BY <1>c, <2>1, <2>2, <2>3, <2>4, ReadyCard DEF ReadCalm
<1>1. CASE \/ ReadCommand /\ Repeats(ReadTransfer, Place)
           \/ ReadStop /\ Repeats("STOP_TRANSMISSION", 0)
  <2>1. /\ ReadTransfer \notin Special /\ "STOP_TRANSMISSION" \notin Special
        /\ ReadTransfer \in Transfers
    BY DEF ReadTransfer, TransferCommand, Special, Transfers
  <2>2. /\ pc' = pc /\ f' = f /\ try' = try + 1 /\ lost' = lost + 1
        /\ spoilt' \in BOOLEAN /\ (spoilt => spoilt')
        /\ spoilt' \/ card' = card
    BY <1>1, <2>1, RepeatKept
  <2>3. f + try <= lost => f' + try' <= lost'
    BY <1>n, <2>2, Losses
  <2>4. spoilt' \in {spoilt, TRUE}
    BY <2>2, TypeParts, Spoiling
  <2>5. Calm' => ReadCalm'
    BY <1>b, <2>2, <2>3, <2>4 DEF ReadCalm
  <2> QED BY <1>c, <2>2, <2>5, ReadFault
<1>2. CASE ReadSelect
  <2>1. /\ pc = "read" /\ card' = card /\ lost' = lost /\ try' = 0
        /\ \/ pc' = "read command" /\ f' = f /\ spoilt' = spoilt
           \/ spoilt'
    BY <1>2, SelectStep DEF ReadSelect
  <2>2. CASE spoilt'
    BY <2>2, NotCalm DEF Calm
  <2>3. CASE pc' = "read command" /\ f' = f /\ spoilt' = spoilt
    <3>1. Calm' => ReadCalm'
      BY <1>b, <2>1, <2>3, StillLost DEF ReadCalm
    <3> QED BY <1>a, <1>c, <2>3, <3>1, ReadFault
  <2> QED BY <2>1, <2>2, <2>3
<1>3. CASE ReadCommand /\ ~Repeats(ReadTransfer, Place)
  <2>1. PICK cmd, arg :
          /\ cmd = ReadTransfer
          /\ arg = Argument(op.range.sector + done)
          /\ pc = "read command" /\ Settled /\ Kept
          /\ \/ pc' = "read bytes" /\ f' = f /\ card'.mode \in Sectors
             \/ Errs /\ Failed(cmd, arg, 0)
    BY <1>3, ReadCommandStep DEF Place
  <2>2. /\ try' = 0 /\ lost' \in {lost, lost + 1} /\ spoilt' \in {spoilt, TRUE}
        /\ card'.power = card.power
    BY <2>1 DEF Settled, Kept
  <2>3. cmd \in Transfers
    BY <2>1 DEF ReadTransfer, WriteTransfer, TransferCommand, Transfers
  <2>4. ASSUME Calm', Failed(cmd, arg, 0)
        PROVE  FALSE
    <3>1. ReadCalm /\ try <= lost
      BY <1>b, <2>2, <2>4
    <3>2. Counted /\ done # op.range.count
      BY <1>c, <2>1, CallCounted DEF Counted
    <3>3. card.power = "ready" /\ card.mode = Tran
      BY <2>1, <3>1 DEF ReadCalm
    <3>4. Token(cmd, arg) = 0
      BY <1>c, <2>1, <2>3, <3>2, <3>3, TransferToken
    <3> QED BY <2>4, <3>1, <3>4, NotFailed
  <2>5. CASE pc' = "read bytes" /\ f' = f /\ card'.mode \in Sectors
    <3>1. Calm' => ReadCalm'
      BY <1>b, <2>2, <2>5, StillLost, SomeSector DEF ReadCalm
    <3> QED BY <1>a, <1>c, <2>5, <3>1, ReadFault
  <2> QED BY <2>1, <2>4, <2>5, NotCalm
<1>4. CASE ReadGood
  <2>1. /\ pc = "read bytes" /\ card.mode \in Sectors /\ card'.mode = NextPlace /\ card'.power = card.power
        /\ lost' = lost /\ try' = 0
        /\ spoilt' = spoilt \/ spoilt'
        /\ \/ pc' = "idle" /\ result' = "RES_OK"
           \/ op.range.count # 1 /\ f' = 0 /\ pc' \in {"read stop", "read bytes"}
    BY <1>4, ReadGoodStep DEF Kept
  <2>2. op.range.count # 1 => card'.mode # Tran
    BY <2>1, SomeSector DEF NextPlace
  <2>3. CASE spoilt'
    BY <2>3, NotCalm DEF Calm
  <2>4. CASE spoilt' = spoilt
    <3>1. op.range.count # 1 /\ f' = 0 /\ pc' \in {"read stop", "read bytes"} => (Calm' => ReadCalm')
      <4>1. f' = 0 => f' + try' <= lost'
        <5>1. 0 + 0 <= lost
          BY <1>n, Losses
        <5> QED BY <2>1, <5>1
      <4> QED BY <1>b, <2>1, <2>2, <2>4, <4>1 DEF ReadCalm
    <3> QED BY <1>a, <1>c, <2>1, <3>1, ReadFault
  <2> QED BY <2>1, <2>3, <2>4
<1>5. CASE ReadBad
  <2>1. /\ pc = "read bytes" /\ card'.power = card.power
        /\ \/ card.mode \in Sectors /\ card'.mode = NextPlace /\ lost' = lost + 1 /\ spoilt' = spoilt
           \/ spoilt'
           \/ card.mode \notin Sectors /\ lost' = lost /\ spoilt' = spoilt
        /\ try' = 0
        /\ \/ op.range.count = 1 /\ pc' = "read" /\ f' = f + 1
           \/ op.range.count = 1 /\ Errs /\ ~(f + 1 < 3)
           \/ op.range.count # 1 /\ pc' = "read stop" /\ f' = f + 1
    BY <1>5, ReadBadStep DEF Kept
  <2>2. ASSUME Calm'
        PROVE  (pc' \in ReadSteps /\ ReadCalm') \/ (pc' = "idle" /\ result' = "RES_OK")
    <3>1. ~spoilt'
      BY <2>2 DEF Calm
    <3>2. lost' \in {lost, lost + 1} /\ spoilt' \in {spoilt, TRUE}
      BY <2>1, <3>1
    <3>3. ReadCalm /\ lost' <= 2 /\ f <= lost /\ Intact
      BY <1>b, <2>2, <3>2
    <3>4. card.mode \in Sectors
      BY <2>1, <3>3, InPlace DEF ReadCalm
    <3>5. card'.mode = NextPlace /\ lost' = lost + 1
      BY <2>1, <3>1, <3>4
    <3>6. f + 1 < 3
      BY <1>n, <3>3, <3>5, Losses
    <3>7. f' = f + 1 /\ pc' \in {"read", "read stop"}
      BY <2>1, <3>6
    <3>8. f' + try' <= lost'
      <4>1. (f + 1) + 0 <= lost + 1
        BY <1>n, <3>3, Losses DEF ReadCalm
      <4> QED BY <2>1, <3>5, <3>7, <4>1
    <3>9. (pc' = "read" => card'.mode = Tran) /\ (pc' = "read stop" => card'.mode # Tran)
      BY <2>1, <3>4, <3>5, <3>6, SomeSector DEF NextPlace
    <3> QED BY <1>a, <2>1, <3>3, <3>7, <3>8, <3>9 DEF ReadCalm
  <2> QED BY <1>c, <2>2, ReadFault
<1>6. CASE ReadStop /\ ~Repeats("STOP_TRANSMISSION", 0)
  <2>1. /\ pc = "read stop" /\ Settled /\ Kept
        /\ \/ Errs /\ (Failed("STOP_TRANSMISSION", 0, 0) \/ f = 3)
           \/ pc' = "idle" /\ result' = "RES_OK"
           \/ pc' = "read" /\ f' = f /\ card'.mode = Tran
    BY <1>6, ReadStopStep
  <2>2. /\ try' = 0 /\ lost' \in {lost, lost + 1} /\ spoilt' \in {spoilt, TRUE}
        /\ card'.power = card.power
    BY <2>1 DEF Settled, Kept
  <2>3. ASSUME Calm', Failed("STOP_TRANSMISSION", 0, 0) \/ f = 3
        PROVE  FALSE
    <3>1. /\ ReadCalm /\ try <= lost /\ f <= lost /\ lost <= 2
          /\ card.crcOn => host.supports_crc
      BY <1>b, <2>2, <2>3
    <3>2. f # 3
      BY <1>n, <3>1, Losses
    <3>3. Token("STOP_TRANSMISSION", 0) = 0
      BY <2>1, <3>1, ReadyTokens DEF ReadCalm
    <3> QED BY <2>3, <3>1, <3>2, <3>3, NotFailed
  <2>4. pc' = "read" /\ f' = f /\ card'.mode = Tran => (Calm' => ReadCalm')
    BY <1>b, <2>2, StillLost DEF ReadCalm
  <2> QED BY <1>a, <1>c, <2>1, <2>3, <2>4, ReadFault, NotCalm
<1> QED BY <1>1, <1>2, <1>3, <1>4, <1>5, <1>6

\* What a step of ff_sd_write has to keep.
LEMMA WriteFault ==
    ASSUME TypeInv', op'.kind = "write",
           Calm' => \/ pc' \in WriteSteps /\ WriteCalm'
                    \/ pc' = "idle" /\ result' = "RES_OK"
    PROVE  FaultInv'
<1>1. pc' \notin InitSteps /\ pc' \notin ReadSteps
  BY DEF TypeInv, CallSteps
<1>2. "idle" \notin WriteSteps
  BY DEF WriteSteps
<1>3. FaultsTolerated'
  BY <1>2 DEF FaultsTolerated, Returned, Calm
<1>4. pc' \in WriteSteps /\ Calm' => WriteCalm'
  BY <1>2
<1> QED BY <1>1, <1>3, <1>4 DEF FaultInv

\* Each step of ff_sd_write keeps it.
LEMMA WriteFaults ==
    ASSUME TypeInv, TypeInv', AddressInv, BusInv, CrcInv, FaultInv,
           \/ WriteErase \/ WriteSelect \/ WriteCommand \/ WriteSingle \/ WriteMultiple
           \/ WriteWait \/ WriteStop \/ WriteNumber \/ WriteStatus
    PROVE  FaultInv'
<1>c. /\ pc \in ReadSteps \cup WriteSteps /\ pc \in WriteSteps /\ op' = op
      /\ op.kind = "write" /\ op'.kind = "write"
  BY WriteCalls
<1>a. {"write erase", "write", "write command", "write bytes", "write wait", "write stop",
       "write number", "write status"} = WriteSteps /\ "idle" \notin WriteSteps
  BY DEF WriteSteps
<1>n. try \in Nat /\ lost \in Nat
  BY TypeParts, CardAssumption, Losses
\* Before a step after which the call is calm it was calm.
<1>b. ASSUME lost' \in {lost, lost + 1}, spoilt' \in {spoilt, TRUE}, Calm'
      PROVE  /\ WriteCalm /\ ~spoilt'
             /\ card.crcOn => host.supports_crc
             /\ card.kind.v = "MMC" => host.type = "CARD_MMC"
             /\ Intact /\ Counted
  <2>1. Calm /\ ~spoilt'
    BY <1>b, <1>c, CalmBefore
  <2>2. WriteCalm
    BY <1>c, <2>1 DEF FaultInv
  <2>3. Intact /\ Counted
    BY <1>c, <2>1 DEF Calm, Intact, Counted
  <2> QED BY <1>c, <2>1, <2>2, <2>3, ReadyCard DEF WriteCalm
\* What most steps keep.
<1>k. ASSUME WriteCalm, f' = f, answer' = answer, card'.power = card.power,
             (try' = 0 /\ lost' \in {lost, lost + 1}) \/ (try' = try + 1 /\ lost' = lost + 1)
      PROVE  try' <= lost' /\ f' = 0 /\ card'.power = "ready" /\ answer' = 5
  <2>1. try <= lost
    BY <1>k DEF WriteCalm
  <2>2. 0 <= lost /\ 0 <= lost + 1 /\ try + 1 <= lost + 1
    BY <1>n, <2>1, Losses
  <2> QED BY <1>k, <2>2 DEF WriteCalm
<1>1. CASE \/ WriteErase /\ Repeats("SET_WR_BLK_ERASE_COUNT", 0)
           \/ WriteCommand /\ Repeats(WriteTransfer, Place)
           \/ WriteStop /\ Repeats("STOP_TRANSMISSION", 0)
           \/ WriteNumber /\ Repeats("SEND_NUM_WR_BLOCKS", 0)
           \/ WriteStatus /\ Repeats("SEND_STATUS", 0)
  <2>1. /\ {"SET_WR_BLK_ERASE_COUNT", WriteTransfer, "STOP_TRANSMISSION", "SEND_NUM_WR_BLOCKS", "SEND_STATUS"}
              \cap Special = {}
        /\ WriteTransfer \in Transfers
        /\ {"SET_WR_BLK_ERASE_COUNT", "SEND_NUM_WR_BLOCKS", "SEND_STATUS"} \cap Transfers = {}
    BY DEF WriteTransfer, TransferCommand, Special, Transfers
  <2>2. /\ Kept /\ pc' = pc /\ f' = f /\ done' = done /\ answer' = answer
        /\ try' = try + 1 /\ lost' = lost + 1
        /\ spoilt' \in BOOLEAN /\ (spoilt => spoilt')
        /\ spoilt' \/ card' = card \/ (pc # "write bytes" /\ card'.mode \in {card.mode, Tran})
    <3>1. CASE WriteCommand /\ Repeats(WriteTransfer, Place)
      BY <2>1, <3>1, RepeatKept
    <3>2. CASE WriteStop /\ Repeats("STOP_TRANSMISSION", 0)
      BY <2>1, <3>2, RepeatKept
    <3>3. CASE \/ WriteErase /\ Repeats("SET_WR_BLK_ERASE_COUNT", 0)
               \/ WriteNumber /\ Repeats("SEND_NUM_WR_BLOCKS", 0)
               \/ WriteStatus /\ Repeats("SEND_STATUS", 0)
      <4>1. pc # "write bytes"
        BY <3>3, WriteEraseForm, WriteNumberForm, WriteStatusForm
      <4> QED BY <2>1, <3>3, <4>1, RepeatKept
    <3> QED BY <1>1, <3>1, <3>2, <3>3
  <2>3. spoilt' \in {spoilt, TRUE}
    BY <2>2, TypeParts, Spoiling
  <2>4. op' = op /\ card'.power = card.power
    BY <2>2 DEF Kept
  <2>5. ASSUME Calm' PROVE WriteCalm'
    <3>1. WriteCalm
      BY <1>b, <2>2, <2>3, <2>5
    <3>2. try' <= lost' /\ f' = 0 /\ card'.power = "ready" /\ answer' = 5
      BY <1>k, <2>2, <2>4, <3>1
    <3>3. card' = card \/ (pc # "write bytes" /\ card'.mode \in {card.mode, Tran})
      BY <2>2, <2>5 DEF Calm
    <3>4. /\ pc' \in {"write erase", "write", "write command"} => card'.mode = Tran
          /\ pc' = "write bytes" => card'.mode # Tran
      BY <2>2, <3>1, <3>3 DEF WriteCalm
    <3> QED BY <2>2, <2>4, <3>1, <3>2, <3>4 DEF WriteCalm
  <2> QED BY <1>c, <2>2, <2>5, WriteFault
<1>2. CASE WriteErase /\ ~Repeats("SET_WR_BLK_ERASE_COUNT", 0)
  <2>1. /\ pc = "write erase" /\ Settled /\ Kept /\ card'.mode \in {card.mode, Tran}
        /\ \/ pc' = "write" /\ f' = f
           \/ host.type # "CARD_MMC" /\ Failed("SET_WR_BLK_ERASE_COUNT", 0, 0)
    BY <1>2, WriteEraseStep
  <2>2. /\ try' = 0 /\ lost' \in {lost, lost + 1} /\ spoilt' \in {spoilt, TRUE}
        /\ card'.power = card.power /\ answer' = answer
    BY <2>1 DEF Settled, Kept
  <2>3. ASSUME Calm', host.type # "CARD_MMC", Failed("SET_WR_BLK_ERASE_COUNT", 0, 0)
        PROVE  FALSE
    <3>1. /\ WriteCalm
          /\ card.crcOn => host.supports_crc
          /\ card.kind.v # "MMC"
      BY <1>b, <2>2, <2>3
    <3>2. card.power = "ready" /\ card.mode = Tran /\ try <= lost
      BY <2>1, <3>1 DEF WriteCalm
    <3>3. Token("SET_WR_BLK_ERASE_COUNT", 0) = 0
      BY <3>1, <3>2, ReadyTokens
    <3> QED BY <2>3, <3>2, <3>3, NotFailed
  <2>4. pc' = "write" /\ f' = f => (Calm' => WriteCalm')
    BY <1>b, <1>k, <2>1, <2>2 DEF WriteCalm
  <2> QED BY <1>a, <1>c, <2>1, <2>3, <2>4, WriteFault, NotCalm
<1>3. CASE WriteSelect
  <2>1. /\ pc = "write" /\ card' = card /\ lost' = lost /\ try' = 0 /\ answer' = answer
        /\ \/ pc' = "write command" /\ f' = f /\ spoilt' = spoilt
           \/ spoilt'
    BY <1>3, SelectStep DEF WriteSelect
  <2>2. CASE spoilt'
    BY <2>2, NotCalm DEF Calm
  <2>3. CASE pc' = "write command" /\ f' = f /\ spoilt' = spoilt
    <3>1. Calm' => WriteCalm'
      BY <1>b, <1>k, <2>1, <2>3 DEF WriteCalm
    <3> QED BY <1>a, <1>c, <2>3, <3>1, WriteFault
  <2> QED BY <2>1, <2>2, <2>3
<1>4. CASE WriteCommand /\ ~Repeats(WriteTransfer, Place)
  <2>1. PICK cmd, arg :
          /\ cmd = WriteTransfer
          /\ arg = Argument(op.range.sector + done)
          /\ pc = "write command" /\ Settled /\ Kept
          /\ \/ pc' = "write bytes" /\ f' = f /\ card'.mode \in Sectors
             \/ Errs /\ Failed(cmd, arg, 0)
    BY <1>4, WriteCommandStep DEF Place
  <2>2. /\ try' = 0 /\ lost' \in {lost, lost + 1} /\ spoilt' \in {spoilt, TRUE}
        /\ card'.power = card.power /\ answer' = answer
    BY <2>1 DEF Settled, Kept
  <2>3. cmd \in Transfers
    BY <2>1 DEF ReadTransfer, WriteTransfer, TransferCommand, Transfers
  <2>4. ASSUME Calm', Failed(cmd, arg, 0)
        PROVE  FALSE
    <3>1. WriteCalm /\ Counted
      BY <1>b, <2>2, <2>4
    <3>2. Counted /\ done # op.range.count
      BY <1>c, <2>1, <3>1, CallCounted
    <3>3. card.power = "ready" /\ card.mode = Tran /\ try <= lost
      BY <2>1, <3>1 DEF WriteCalm
    <3>4. Token(cmd, arg) = 0
      BY <1>c, <2>1, <2>3, <3>2, <3>3, TransferToken
    <3> QED BY <2>4, <3>3, <3>4, NotFailed
  <2>5. CASE pc' = "write bytes" /\ f' = f /\ card'.mode \in Sectors
    <3>1. Calm' => WriteCalm'
      BY <1>b, <1>k, <2>2, <2>5, SomeSector DEF WriteCalm
    <3> QED BY <1>a, <1>c, <2>5, <3>1, WriteFault
  <2> QED BY <2>1, <2>4, <2>5, NotCalm
\* A block sent in a calm call is taken.
<1>s. ASSUME Delivered, pc = "write bytes", lost' = lost, Calm'
      PROVE  /\ answer' = 5 /\ card'.mode = NextPlace /\ spoilt' = spoilt
             /\ card.mode \in Sectors /\ WriteCalm
  <2>1. ~spoilt' /\ spoilt' \in {spoilt, TRUE}
    BY <1>s DEF Delivered, Calm
  <2>2. WriteCalm /\ Intact
    BY <1>b, <1>s, <2>1
  <2>3. card.mode \in Sectors
    BY <1>s, <2>2, InPlace DEF WriteCalm
  <2> QED BY <1>s, <2>1, <2>2, <2>3 DEF Delivered, BlockTaken, BlockNotTaken, OnCard, NextPlace
<1>5. CASE WriteSingle
  <2>1. /\ pc = "write bytes" /\ Delivered /\ Kept /\ try' = 0 /\ lost' = lost
        /\ \/ answer' # 5
           \/ pc' = "write status" /\ f' = f
    BY <1>5, WriteSingleStep DEF Delivered, BlockNotTaken
  <2>2. ASSUME Calm'
        PROVE  pc' \in WriteSteps /\ WriteCalm'
    <3>1. answer' = 5 /\ WriteCalm
      BY <1>s, <2>1, <2>2
    <3>2. pc' = "write status" /\ f' = f /\ answer' = answer /\ card'.power = card.power
      BY <2>1, <3>1 DEF WriteCalm, Kept
    <3> QED BY <1>a, <1>k, <2>1, <3>1, <3>2 DEF WriteCalm
  <2> QED BY <1>c, <2>2, WriteFault
<1>6. CASE WriteMultiple
  <2>1. /\ pc = "write bytes" /\ op.range.count # 1 /\ Delivered /\ Kept /\ try' = 0 /\ lost' = lost
        /\ \/ /\ f' = 0
              /\ pc' = IF done' = op.range.count THEN "write wait" ELSE "write bytes"
           \/ answer' # 5
    BY <1>6, WriteMultipleStep DEF Delivered
  <2>2. ASSUME Calm'
        PROVE  pc' \in WriteSteps /\ WriteCalm'
    <3>1. answer' = 5 /\ WriteCalm /\ card'.mode = NextPlace /\ card.mode \in Sectors
      BY <1>s, <2>1, <2>2
    <3>2. /\ f' = f /\ answer' = answer /\ card'.power = card.power
          /\ pc' = IF done' = op.range.count THEN "write wait" ELSE "write bytes"
      BY <2>1, <3>1 DEF WriteCalm, Kept
    <3>3. card'.mode # Tran
      BY <2>1, <3>1, SomeSector DEF NextPlace
    <3> QED BY <1>a, <1>c, <1>k, <2>1, <3>1, <3>2, <3>3 DEF WriteCalm
  <2> QED BY <1>c, <2>2, WriteFault
<1>7. CASE WriteWait
  <2>1. /\ pc = "write wait" /\ Kept /\ answer' = answer /\ try' = 0 /\ lost' = lost
        /\ \/ pc' = "write status" /\ f' = f /\ spoilt' = spoilt
           \/ done # op.range.count /\ spoilt' = spoilt
           \/ spoilt'
    BY <1>7, WriteWaitStep
  <2>2. CASE spoilt'
    BY <2>2, NotCalm DEF Calm
  <2>3. CASE spoilt' = spoilt
    <3>1. ASSUME Calm'
          PROVE  pc' \in WriteSteps /\ WriteCalm'
      <4>1. WriteCalm /\ ~spoilt'
        BY <1>b, <2>1, <2>3, <3>1
      <4>2. done = op.range.count
        BY <2>1, <4>1 DEF WriteCalm
      <4>3. pc' = "write status" /\ f' = f /\ card'.power = card.power
        BY <2>1, <4>1, <4>2 DEF Kept
      <4> QED BY <1>a, <1>k, <2>1, <4>1, <4>3 DEF WriteCalm
    <3> QED BY <1>c, <3>1, WriteFault
  <2> QED BY <2>1, <2>2, <2>3
<1>8. CASE \/ WriteStop /\ ~Repeats("STOP_TRANSMISSION", 0)
           \/ WriteNumber /\ ~Repeats("SEND_NUM_WR_BLOCKS", 0)
  <2>1. pc \in {"write stop", "write number"} /\ Settled
    BY <1>8, WriteStopStep, WriteNumberStep
  <2>2. lost' \in {lost, lost + 1} /\ spoilt' \in {spoilt, TRUE}
    BY <2>1 DEF Settled
  <2>3. ~Calm'
    BY <1>b, <2>1, <2>2 DEF WriteCalm
  <2> QED BY <2>3, NotCalm
<1>9. CASE WriteStatus /\ ~Repeats("SEND_STATUS", 0)
  <2>1. /\ pc = "write status" /\ Settled
        /\ \/ pc' = "idle" /\ result' = "RES_OK"
           \/ Failed("SEND_STATUS", 0, 0)
    BY <1>9, WriteStatusStep
  <2>2. lost' \in {lost, lost + 1} /\ spoilt' \in {spoilt, TRUE}
    BY <2>1 DEF Settled
  <2>3. ASSUME Calm'
        PROVE  pc' = "idle" /\ result' = "RES_OK"
    <3>1. /\ WriteCalm
          /\ card.crcOn => host.supports_crc
      BY <1>b, <2>2, <2>3
    <3>2. card.power = "ready" /\ answer = 5 /\ try <= lost
      BY <3>1 DEF WriteCalm
    <3>3. Token("SEND_STATUS", 0) = 0
      BY <3>1, <3>2, ReadyTokens
    <3> QED BY <2>1, <2>3, <3>2, <3>3, NotFailed
  <2> QED BY <1>c, <2>3, WriteFault
<1> QED BY <1>1, <1>2, <1>3, <1>4, <1>5, <1>6, <1>7, <1>8, <1>9

\* What a step of ff_sd_initialize has to keep.
LEMMA InitFault ==
    ASSUME TypeInv', op'.kind = "init",
           Calm' => \/ pc' \in InitSteps /\ InitCalm'
                    \/ pc' = "idle" /\ result' = "RES_OK" /\ host'.type = Type(card'.kind.v)
    PROVE  FaultInv'
<1>1. pc' \notin WriteSteps /\ pc' \notin ReadSteps
  BY DEF TypeInv, CallSteps
<1>2. "idle" \notin InitSteps
  BY DEF InitSteps
<1>3. FaultsTolerated'
  BY <1>2 DEF FaultsTolerated, Returned, Calm, Type
<1>4. pc' \in InitSteps /\ Calm' => InitCalm'
  BY <1>2
<1> QED BY <1>1, <1>3, <1>4 DEF FaultInv

\* What a card that is being recognised answers.
LEMMA IdleTokens ==
    ASSUME card.mode = Tran, card.crcOn => host.supports_crc, card.power = "idle"
    PROVE  /\ Token("CRC_ON_OFF", 1) = IF card.kind.crc THEN 1 ELSE 5
           /\ Token("SEND_IF_COND", 0) = IF card.kind.v \in {"SDHC", "SD2"} THEN 1 ELSE 5
           /\ Token("READ_OCR", 0) = 1
<1>1. Token("CRC_ON_OFF", 1) = IF card.kind.crc THEN 1 ELSE 5
  BY DEF Token, R1, Transfers
<1>2. Token("SEND_IF_COND", 0) = IF card.kind.v \in {"SDHC", "SD2"} THEN 1 ELSE 5
  BY DEF Token, R1, Transfers
<1>3. Token("READ_OCR", 0) = 1
  BY DEF Token, R1, Transfers
<1> QED BY <1>1, <1>2, <1>3

\* These are answered in the same way by a card that is ready since an answer was lost.
LEMMA OpTokens ==
    ASSUME card.mode = Tran, card.crcOn => host.supports_crc, card.power # "off"
    PROVE  /\ card.kind.v \in {"SDHC", "SD2"} => Token("APP_OP_COND", HCS) = 0
           /\ card.kind.v = "SD1" => Token("APP_OP_COND", 0) = 0
           /\ card.kind.v = "MMC" => Token("APP_OP_COND", 0) = 5 /\ Token("SEND_OP_COND", 0) = 0
<1>1. card.kind.v \in {"SDHC", "SD2"} => Token("APP_OP_COND", HCS) = 0
  BY DEF Token, R1, Transfers
<1>2. card.kind.v = "SD1" => Token("APP_OP_COND", 0) = 0
  BY DEF Token, R1, Transfers
<1>3. card.kind.v = "MMC" => Token("APP_OP_COND", 0) = 5 /\ Token("SEND_OP_COND", 0) = 0
  BY DEF Token, R1, Transfers
<1> QED BY <1>1, <1>2, <1>3

LEMMA RecognisedTokens ==
    ASSUME card.mode = Tran, card.crcOn => host.supports_crc, card.power = "ready"
    PROVE  /\ Token("READ_OCR", 0) = 0 /\ Token("SET_BLOCKLEN", 0) = 0
           /\ card.kind.v # "MMC" => Token("APP_CLR_CARD_DETECT", 0) = 0
<1>1. Token("READ_OCR", 0) = 0
  BY DEF Token, R1, Transfers
<1>2. Token("SET_BLOCKLEN", 0) = 0
  BY DEF Token, R1, Transfers
<1>3. card.kind.v # "MMC" => Token("APP_CLR_CARD_DETECT", 0) = 0
  BY DEF Token, R1, Transfers
<1> QED BY <1>1, <1>2, <1>3

LEMMA Types ==
    /\ Type("SDHC") = "CARD_SDHC" /\ Type("SD1") = "CARD_SD" /\ Type("SD2") = "CARD_SD" /\ Type("MMC") = "CARD_MMC"
    /\ \A v \in {"SDHC", "SD1", "SD2", "MMC"} : Type(v) = "CARD_MMC" <=> v = "MMC"
BY DEF Type

LEMMA SettledLosses ==
    ASSUME TypeInv, Settled, try <= lost
    PROVE  try' = 0 /\ try' <= lost'
<1>1. try \in Nat /\ lost \in Nat
  BY TypeParts, CardAssumption, Losses
<1>2. 0 <= lost /\ 0 <= lost + 1
  BY <1>1, Losses
<1> QED BY <1>2 DEF Settled

\* A command that is answered as it should be: the call goes on.
LEMMA CalmWalk ==
    ASSUME TypeInv, NEW cmd, NEW arg, NEW wanted, NEW next, Walked(cmd, arg, wanted, next),
           Token(cmd, arg) = wanted, Calm', try <= lost
    PROVE  /\ pc' = next /\ card' = Executed(cmd, arg) /\ card'.kind = card.kind
           /\ host'.supports_crc = host.supports_crc /\ try' <= lost'
           /\ cmd \notin Transfers /\ card.mode = Tran => card'.mode = Tran
           /\ cmd \notin Transfers \cup {"GO_IDLE_STATE", "APP_OP_COND", "SEND_OP_COND"} => card'.power = card.power
<1>1. ~Failed(cmd, arg, wanted)
  BY NotFailed
<1>2. /\ Settled /\ pc' = next /\ card' = Executed(cmd, arg) /\ card'.kind = card.kind
      /\ host'.supports_crc = host.supports_crc
  BY <1>1 DEF Walked
<1>3. try' <= lost'
  BY <1>2, SettledLosses
<1>4. cmd \notin Transfers => card'.mode \in {card.mode, Tran}
  BY <1>2, CommandMode
<1>5. cmd \notin Transfers \cup {"GO_IDLE_STATE", "APP_OP_COND", "SEND_OP_COND"} => card'.power = card.power
  BY <1>2, CommandPower
<1> QED BY <1>2, <1>3, <1>4, <1>5

\* The commands of ff_sd_initialize that may be sent again at its steps.
Resent(cmd) ==
    \/ pc = "init" /\ cmd = "GO_IDLE_STATE"
    \/ pc \in OpSteps /\ cmd \in {"APP_OP_COND", "SEND_OP_COND"}
    \/ cmd \notin {"GO_IDLE_STATE", "APP_OP_COND", "SEND_OP_COND"} \cup Transfers

\* A command of ff_sd_initialize that is sent again: it was not executed, or the card
\* is where an answer would have left it, but for its power in OpSteps.
LEMMA InitRepeatFaults ==
    ASSUME TypeInv, TypeInv', CrcInv, FaultInv, pc \in InitSteps, NEW cmd, NEW arg, Repeats(cmd, arg), Resent(cmd)
    PROVE  FaultInv'
<1> USE DEF Resent
<1>1. /\ pc' = pc /\ op' = op /\ host' = host
      /\ try' = try + 1 /\ lost' = lost + 1
      /\ card'.kind = card.kind /\ (card' = card \/ card' = Executed(cmd, arg))
      /\ spoilt' \in BOOLEAN /\ (spoilt => spoilt')
  BY TypeParts, Repeating
<1>2. spoilt' \in {spoilt, TRUE}
  BY <1>1, TypeParts, Spoiling
<1>3. op.kind = "init"
  BY DEF TypeInv, CallSteps
<1>4. try <= lost => try' <= lost'
  <2>1. try \in Nat /\ lost \in Nat
    BY TypeParts, CardAssumption, Losses
  <2> QED BY <1>1, <2>1, Losses
<1>5. cmd \notin Transfers
  BY DEF Transfers
<1>6. card'.mode \in {card.mode, Tran}
  BY <1>1, <1>5, CommandMode
<1>7. cmd \notin {"GO_IDLE_STATE", "APP_OP_COND", "SEND_OP_COND"} => card'.power = card.power
  BY <1>1, CommandPower
<1>8. cmd \in {"APP_OP_COND", "SEND_OP_COND"} => card'.power \in {card.power, "ready"}
  BY <1>1, OpCondEffects
<1>9. pc = "init" => pc \notin EarlyInit \cup OpSteps \cup LateInit \cup {"init ccs"}
  BY DEF EarlyInit, OpSteps, LateInit
<1>10. pc \in OpSteps => pc \notin LateInit \cup {"init ccs"}
  BY DEF OpSteps, LateInit
<1>11. ASSUME Calm'
       PROVE  InitCalm'
  <2>1. InitCalm
    BY <1>1, <1>2, <1>11, CalmBefore DEF FaultInv
  <2>2. pc' # "init" => card'.mode = Tran
    BY <1>1, <1>6, <2>1 DEF InitCalm
  <2>3. pc' \in EarlyInit \ OpSteps => card'.power = "idle"
    BY <1>1, <1>7, <1>9, <2>1 DEF InitCalm
  <2>4. pc' \in OpSteps => card'.power # "off"
    BY <1>1, <1>7, <1>8, <1>9, <2>1 DEF InitCalm
  <2>5. pc' \in {"init ccs"} \cup LateInit => card'.power = "ready"
    BY <1>1, <1>7, <1>9, <1>10, <2>1 DEF InitCalm
  <2> QED BY <1>1, <1>4, <2>1, <2>2, <2>3, <2>4, <2>5 DEF InitCalm
<1> QED BY <1>1, <1>3, <1>11, InitFault

\* Each step of ff_sd_initialize takes the branch for the kind of the card.
LEMMA InitAnswered ==
    ASSUME TypeInv, TypeInv', CrcInv, FaultInv, ff_sd_initialize,
           ~\E cmd, arg : Repeats(cmd, arg) /\ Resent(cmd)
    PROVE  FaultInv'
<1>c. pc \in InitSteps /\ op' = op /\ op.kind = "init" /\ op'.kind = "init"
  BY InitMoves DEF InitMove, TypeInv, CallSteps
<1>k. card.kind.v \in {"SDHC", "SD1", "SD2", "MMC"}
  BY TypeParts, CardAssumption DEF CardStates, CardKinds
<1>i. {"init", "init crc", "init if", "init ocr 1", "init ocr 2", "init op 1", "init op 2",
       "init op mmc", "init ccs", "init detect", "init block", "init csd"} = InitSteps
  BY DEF InitSteps
<1>e. {"init crc", "init if", "init ocr 1", "init ocr 2", "init op 1", "init op 2", "init op mmc"} = EarlyInit
  BY DEF EarlyInit, InitSteps, LateInit
<1>l. {"init detect", "init block", "init csd"} = LateInit
  BY DEF LateInit
<1>o. {"init op 1", "init op 2", "init op mmc"} = OpSteps
  BY DEF OpSteps
<1>j. {"init crc", "init if", "init ocr 1", "init ocr 2"} = EarlyInit \ OpSteps
  BY DEF EarlyInit, InitSteps, LateInit, OpSteps
\* Before a step after which the call is calm it was calm.
<1>b. ASSUME lost' \in {lost, lost + 1}, spoilt' \in {spoilt, TRUE}, Calm'
      PROVE  /\ InitCalm /\ ~spoilt'
             /\ card.crcOn => host.supports_crc
  <2>1. Calm /\ ~spoilt'
    BY <1>b, <1>c, CalmBefore
  <2>2. InitCalm
    BY <1>c, <2>1 DEF FaultInv
  <2> QED BY <2>1, <2>2 DEF InitCalm, CrcInv
<1>s. Settled => lost' \in {lost, lost + 1} /\ spoilt' \in {spoilt, TRUE}
  BY DEF Settled
<1>w. ASSUME NEW cmd, NEW arg, NEW wanted, NEW next, Walked(cmd, arg, wanted, next), Calm'
      PROVE  /\ InitCalm /\ try <= lost
             /\ card.crcOn => host.supports_crc
  <2>1. lost' \in {lost, lost + 1} /\ spoilt' \in {spoilt, TRUE}
    BY <1>s, <1>w DEF Walked
  <2> QED BY <1>b, <1>w, <2>1 DEF InitCalm
\* A step taken early: the card is still idle.
<1>p. ASSUME NEW step \in EarlyInit \ OpSteps, pc = step, InitCalm
      PROVE  card.power = "idle" /\ card.mode = Tran
  BY <1>e, <1>p DEF InitCalm
\* One that waits for it: it may be ready, and the answer lost.
<1>r. ASSUME NEW step \in OpSteps, pc = step, InitCalm
      PROVE  card.power # "off" /\ card.mode = Tran
  BY <1>o, <1>r DEF InitCalm
<1>q. ASSUME NEW step \in LateInit \cup {"init ccs"}, pc = step, InitCalm
      PROVE  card.power = "ready" /\ card.mode = Tran
  BY <1>l, <1>q DEF InitCalm
\* None of the commands is sent again.
<1>n. /\ InitIdle => ~Repeats("GO_IDLE_STATE", 0)
      /\ ~Repeats("CRC_ON_OFF", 1) /\ ~Repeats("SEND_IF_COND", 0)
      /\ ~Repeats("READ_OCR", 0) /\ ~Repeats("APP_CLR_CARD_DETECT", 0) /\ ~Repeats("SET_BLOCKLEN", 0)
      /\ ~Repeats("SEND_CSD", 0)
      /\ InitOp2 => ~Repeats("APP_OP_COND", HCS)
      /\ InitOp1 => ~Repeats("APP_OP_COND", 0)
      /\ InitMmc => ~Repeats("SEND_OP_COND", 0)
  <2>1. InitIdle => Resent("GO_IDLE_STATE")
    BY InitIdleForm DEF Resent
  <2>2. {"CRC_ON_OFF", "SEND_IF_COND", "READ_OCR", "APP_CLR_CARD_DETECT", "SET_BLOCKLEN", "SEND_CSD"}
          \cap ({"GO_IDLE_STATE", "APP_OP_COND", "SEND_OP_COND"} \cup Transfers) = {}
    BY DEF Transfers
  <2>3. \A cmd \in {"CRC_ON_OFF", "SEND_IF_COND", "READ_OCR", "APP_CLR_CARD_DETECT", "SET_BLOCKLEN", "SEND_CSD"} :
            Resent(cmd)
    BY <2>2 DEF Resent
  <2>4. InitOp2 => Resent("APP_OP_COND")
    BY <1>o, ProbeForms DEF Probed, Resent
  <2>5. InitOp1 => Resent("APP_OP_COND")
    BY <1>o, InitOp1Form DEF Resent
  <2>6. InitMmc => Resent("SEND_OP_COND")
    BY <1>o, InitMmcForm DEF Resent
  <2> QED BY <2>1, <2>3, <2>4, <2>5, <2>6
<1>2. CASE InitIdle
  <2>1. pc = "init" /\ Walked("GO_IDLE_STATE", 0, 1, "init crc")
    BY <1>n, <1>2, InitIdleStep
  <2>2. ASSUME Calm'
        PROVE  pc' \in InitSteps /\ InitCalm'
    <3>1. InitCalm /\ try <= lost
      BY <1>w, <2>1, <2>2
    <3>2. /\ pc' = "init crc" /\ card' = Executed("GO_IDLE_STATE", 0) /\ card'.kind = card.kind
          /\ host'.supports_crc = host.supports_crc /\ try' <= lost'
      BY <2>1, <2>2, <3>1, GoIdleToken, CalmWalk
    <3>3. Executed("GO_IDLE_STATE", 0) = [card EXCEPT !.power = "idle", !.crcOn = FALSE, !.mode = Tran]
      BY GoIdleToken DEF Executed, Transfers
    <3>4. card'.power = "idle" /\ card'.mode = Tran
      BY <3>2, <3>3, TypeParts DEF CardStates
    <3>5. pc' \notin LateInit
      BY <1>l, <3>2
    <3> QED BY <1>i, <3>1, <3>2, <3>4, <3>5 DEF InitCalm
  <2> QED BY <1>c, <2>2, InitFault
<1>3. CASE InitCrc
  <2>1. /\ pc = "init crc" /\ Settled /\ card'.kind = card.kind
        /\ \/ /\ pc' = "init if" /\ Token("CRC_ON_OFF", 1) \in {1, 5} /\ card' = Executed("CRC_ON_OFF", 1)
              /\ host'.supports_crc = IF Token("CRC_ON_OFF", 1) = 5 THEN FALSE ELSE host.supports_crc
           \/ Failed("CRC_ON_OFF", 1, 1) /\ Failed("CRC_ON_OFF", 1, 5)
    BY <1>n, <1>3, InitCrcStep
  <2>2. ASSUME Calm'
        PROVE  pc' \in InitSteps /\ InitCalm'
    <3>1. InitCalm /\ try <= lost /\ (card.crcOn => host.supports_crc)
      BY <1>b, <1>s, <2>1, <2>2 DEF InitCalm
    <3>2. card.power = "idle" /\ card.mode = Tran
      BY <1>j, <1>p, <2>1, <3>1
    <3>3. Token("CRC_ON_OFF", 1) = IF card.kind.crc THEN 1 ELSE 5
      BY <3>1, <3>2, IdleTokens
    <3>4. ~(Failed("CRC_ON_OFF", 1, 1) /\ Failed("CRC_ON_OFF", 1, 5))
      <4>1. Token("CRC_ON_OFF", 1) = 1 \/ Token("CRC_ON_OFF", 1) = 5
        BY <3>3
      <4> QED BY <2>2, <3>1, <4>1, NotFailed
    <3>5. /\ pc' = "init if" /\ card' = Executed("CRC_ON_OFF", 1)
          /\ host'.supports_crc = IF Token("CRC_ON_OFF", 1) = 5 THEN FALSE ELSE host.supports_crc
      BY <2>1, <3>4
    <3>6. host'.supports_crc \/ ~card'.kind.crc
      <4>1. 1 # 5
        OBVIOUS
      <4>2. card.kind.crc => host'.supports_crc = host.supports_crc
        BY <3>3, <3>5, <4>1
      <4>3. host.supports_crc \/ ~card.kind.crc
        BY <3>1 DEF InitCalm
      <4> QED BY <2>1, <4>2, <4>3
    <3>7. card'.mode \in {card.mode, Tran} /\ card'.power = card.power
      BY <3>5, PlainCommands, CommandMode, CommandPower
    <3>8. try' <= lost'
      BY <2>1, <3>1, SettledLosses
    <3>9. pc' \notin LateInit
      BY <1>l, <3>5
    <3> QED BY <1>i, <3>2, <3>5, <3>6, <3>7, <3>8, <3>9 DEF InitCalm
  <2> QED BY <1>c, <2>2, InitFault
<1>4. CASE InitIf
  <2>1. /\ pc = "init if" /\ Settled /\ card'.kind = card.kind /\ host'.supports_crc = host.supports_crc
        /\ card' = card \/ card' = Executed("SEND_IF_COND", 0)
        /\ \/ pc' = "init ocr 2" /\ Token("SEND_IF_COND", 0) = 1
           \/ pc' = "init ocr 1" /\ Failed("SEND_IF_COND", 0, 1)
    BY <1>n, <1>4, InitIfStep
  <2>2. ASSUME Calm'
        PROVE  pc' \in InitSteps /\ InitCalm'
    <3>1. InitCalm /\ try <= lost /\ (card.crcOn => host.supports_crc)
      BY <1>b, <1>s, <2>1, <2>2 DEF InitCalm
    <3>2. card.power = "idle" /\ card.mode = Tran
      BY <1>j, <1>p, <2>1, <3>1
    <3>3. Token("SEND_IF_COND", 0) = IF card.kind.v \in {"SDHC", "SD2"} THEN 1 ELSE 5
      BY <3>1, <3>2, IdleTokens
    <3>4. card'.mode = Tran /\ card'.power = "idle"
      BY <2>1, <3>2, PlainCommands, CommandMode, CommandPower
    <3>5. try' <= lost'
      BY <2>1, <3>1, SettledLosses
    <3>6. 1 # 5
      OBVIOUS
    <3>7. \/ pc' = "init ocr 2" /\ card.kind.v \in {"SDHC", "SD2"}
          \/ pc' = "init ocr 1" /\ card.kind.v \in {"SD1", "MMC"}
      <4>1. CASE card.kind.v \in {"SDHC", "SD2"}
        BY <2>1, <2>2, <3>1, <3>3, <4>1, NotFailed
      <4>2. CASE card.kind.v \notin {"SDHC", "SD2"}
        BY <1>k, <2>1, <3>3, <3>6, <4>2
      <4> QED BY <4>1, <4>2
    <3>8. pc' \notin LateInit
      BY <1>l, <3>7
    <3> QED BY <1>i, <2>1, <3>1, <3>4, <3>5, <3>7, <3>8 DEF InitCalm
  <2> QED BY <1>c, <2>2, InitFault
<1>5. CASE InitVoltage \/ InitSlow
  <2>1. spoilt'
    BY <1>5, InitOddStep
  <2> QED BY <2>1, NotCalm DEF Calm
<1>6. CASE InitOcr2 \/ InitOcr1
  <2>1. \/ pc = "init ocr 2" /\ Walked("READ_OCR", 0, 1, "init op 2")
        \/ pc = "init ocr 1" /\ Walked("READ_OCR", 0, 1, "init op 1")
    BY <1>n, <1>6, ProbeForms, ProbedStep
  <2>2. "READ_OCR" \notin Transfers \cup {"GO_IDLE_STATE", "APP_OP_COND", "SEND_OP_COND"}
    BY DEF Transfers
  <2>3. ASSUME Calm'
        PROVE  pc' \in InitSteps /\ InitCalm'
    <3>1. InitCalm /\ try <= lost /\ (card.crcOn => host.supports_crc)
      BY <1>w, <2>1, <2>3
    <3>2. card.power = "idle" /\ card.mode = Tran
      BY <1>j, <1>p, <2>1, <3>1
    <3>3. Token("READ_OCR", 0) = 1
      BY <3>1, <3>2, IdleTokens
    <3>4. /\ \/ pc = "init ocr 2" /\ pc' = "init op 2"
             \/ pc = "init ocr 1" /\ pc' = "init op 1"
          /\ card'.kind = card.kind /\ card'.mode = Tran /\ card'.power = card.power
          /\ host'.supports_crc = host.supports_crc /\ try' <= lost'
      BY <2>1, <2>2, <2>3, <3>1, <3>2, <3>3, CalmWalk
    <3>5. pc' \notin LateInit
      BY <1>l, <3>4
    <3> QED BY <1>i, <3>1, <3>2, <3>4, <3>5 DEF InitCalm
  <2> QED BY <1>c, <2>3, InitFault
<1>7. CASE InitOp2
  <2>1. pc = "init op 2" /\ Walked("APP_OP_COND", HCS, 0, "init ccs")
    BY <1>n, <1>7, ProbeForms, ProbedStep
  <2>2. ASSUME Calm'
        PROVE  pc' \in InitSteps /\ InitCalm'
    <3>1. InitCalm /\ try <= lost /\ (card.crcOn => host.supports_crc)
      BY <1>w, <2>1, <2>2
    <3>2. card.power # "off" /\ card.mode = Tran /\ card.kind.v \in {"SDHC", "SD2"}
      BY <1>o, <1>r, <2>1, <3>1 DEF InitCalm
    <3>3. Token("APP_OP_COND", HCS) = 0
      BY <3>1, <3>2, OpTokens
    <3>4. /\ pc' = "init ccs" /\ card' = Executed("APP_OP_COND", HCS) /\ card'.kind = card.kind
          /\ host'.supports_crc = host.supports_crc /\ try' <= lost'
      BY <2>1, <2>2, <3>1, <3>3, CalmWalk
    <3>5. card'.power = "ready" /\ card'.mode = Tran
      BY <3>2, <3>3, <3>4, OpCondEffects
    <3>6. pc' \notin LateInit /\ pc' \notin EarlyInit
      BY <1>l, <1>e, <3>4
    <3> QED BY <1>i, <3>1, <3>2, <3>4, <3>5, <3>6 DEF InitCalm
  <2> QED BY <1>c, <2>2, InitFault
<1>8. CASE InitCcs
  <2>1. /\ pc = "init ccs" /\ Walked("READ_OCR", 0, 0, "init detect")
        /\ pc' = "init detect" => host'.type = IF card.kind.v = "SDHC" THEN "CARD_SDHC" ELSE "CARD_SD"
    BY <1>n, <1>8, InitCcsStep
  <2>2. "READ_OCR" \notin Transfers \cup {"GO_IDLE_STATE", "APP_OP_COND", "SEND_OP_COND"}
    BY DEF Transfers
  <2>3. ASSUME Calm'
        PROVE  pc' \in InitSteps /\ InitCalm'
    <3>1. InitCalm /\ try <= lost /\ (card.crcOn => host.supports_crc)
      BY <1>w, <2>1, <2>3
    <3>2. card.power = "ready" /\ card.mode = Tran /\ card.kind.v \in {"SDHC", "SD2"}
      BY <1>q, <2>1, <3>1 DEF InitCalm
    <3>3. Token("READ_OCR", 0) = 0
      BY <3>1, <3>2, RecognisedTokens
    <3>4. /\ pc' = "init detect"
          /\ card'.kind = card.kind /\ card'.mode = Tran /\ card'.power = card.power
          /\ host'.supports_crc = host.supports_crc /\ try' <= lost'
      BY <2>1, <2>2, <2>3, <3>1, <3>2, <3>3, CalmWalk
    <3>5. host'.type = Type(card.kind.v)
      BY <2>1, <3>2, <3>4, Types
    <3>6. pc' \notin EarlyInit
      BY <1>e, <3>4
    <3> QED BY <1>i, <3>1, <3>2, <3>4, <3>5, <3>6 DEF InitCalm
  <2> QED BY <1>c, <2>3, InitFault
<1>9. CASE InitOp1
  <2>1. /\ pc = "init op 1" /\ Settled /\ card'.kind = card.kind /\ host'.supports_crc = host.supports_crc
        /\ \/ /\ pc' = "init detect" /\ host'.type = "CARD_SD"
              /\ Token("APP_OP_COND", 0) = 0 /\ card' = Executed("APP_OP_COND", 0)
           \/ /\ pc' = "init op mmc" /\ Failed("APP_OP_COND", 0, 0)
              /\ card' = card \/ card' = Executed("APP_OP_COND", 0)
    BY <1>n, <1>9, InitOp1Step
  <2>2. ASSUME Calm'
        PROVE  pc' \in InitSteps /\ InitCalm'
    <3>1. InitCalm /\ try <= lost /\ (card.crcOn => host.supports_crc)
      BY <1>b, <1>s, <2>1, <2>2 DEF InitCalm
    <3>2. card.power # "off" /\ card.mode = Tran /\ card.kind.v \in {"SD1", "MMC"}
      BY <1>o, <1>r, <2>1, <3>1 DEF InitCalm
    <3>3. try' <= lost'
      BY <2>1, <3>1, SettledLosses
    <3>4. CASE card.kind.v = "SD1"
      <4>1. Token("APP_OP_COND", 0) = 0
        BY <3>1, <3>2, <3>4, OpTokens
      <4>2. /\ pc' = "init detect" /\ host'.type = "CARD_SD" /\ card' = Executed("APP_OP_COND", 0)
        BY <2>1, <2>2, <3>1, <4>1, NotFailed
      <4>3. card'.power = "ready" /\ card'.mode = Tran
        BY <3>2, <4>1, <4>2, OpCondEffects
      <4>4. host'.type = Type(card'.kind.v)
        BY <2>1, <3>4, <4>2, Types
      <4>5. pc' \notin EarlyInit
        BY <1>e, <4>2
      <4> QED BY <1>i, <2>1, <3>1, <3>3, <4>2, <4>3, <4>4, <4>5 DEF InitCalm
    <3>5. CASE card.kind.v = "MMC"
      <4>1. Token("APP_OP_COND", 0) = 5
        BY <3>1, <3>2, <3>5, OpTokens
      <4>2. Token("APP_OP_COND", 0) # 0
        <5>1. 5 # 0
          OBVIOUS
        <5> QED BY <4>1, <5>1
      <4>3. pc' = "init op mmc" /\ (card' = card \/ card' = Executed("APP_OP_COND", 0))
        BY <2>1, <4>2
      <4>4. Executed("APP_OP_COND", 0).power = card.power /\ Executed("APP_OP_COND", 0).mode = card.mode
        BY <4>2, OpCondEffects
      <4>6. card'.power # "off" /\ card'.mode = Tran
        BY <3>2, <4>3, <4>4
      <4>5. pc' \notin LateInit /\ pc' \in OpSteps
        BY <1>l, <1>o, <4>3
      <4> QED BY <1>i, <2>1, <3>1, <3>3, <3>5, <4>3, <4>5, <4>6 DEF InitCalm
    <3> QED BY <3>2, <3>4, <3>5
  <2> QED BY <1>c, <2>2, InitFault
<1>10. CASE InitMmc
  <2>1. /\ pc = "init op mmc" /\ Settled /\ card'.kind = card.kind /\ host'.supports_crc = host.supports_crc
        /\ \/ /\ pc' = "init detect" /\ host'.type = "CARD_MMC"
              /\ Token("SEND_OP_COND", 0) = 0 /\ card' = Executed("SEND_OP_COND", 0)
           \/ pc' = "init op mmc" /\ Failed("SEND_OP_COND", 0, 0)
    BY <1>n, <1>10, InitMmcStep
  <2>2. ASSUME Calm'
        PROVE  pc' \in InitSteps /\ InitCalm'
    <3>1. InitCalm /\ try <= lost /\ (card.crcOn => host.supports_crc)
      BY <1>b, <1>s, <2>1, <2>2 DEF InitCalm
    <3>2. card.power # "off" /\ card.mode = Tran /\ card.kind.v = "MMC"
      BY <1>o, <1>r, <2>1, <3>1 DEF InitCalm
    <3>3. Token("SEND_OP_COND", 0) = 0
      BY <3>1, <3>2, OpTokens
    <3>4. pc' = "init detect" /\ host'.type = "CARD_MMC" /\ card' = Executed("SEND_OP_COND", 0)
      BY <2>1, <2>2, <3>1, <3>3, NotFailed
    <3>5. card'.power = "ready" /\ card'.mode = Tran
      BY <3>2, <3>3, <3>4, OpCondEffects
    <3>6. host'.type = Type(card'.kind.v)
      BY <2>1, <3>2, <3>4, Types
    <3>7. pc' \notin EarlyInit
      BY <1>e, <3>4
    <3>8. try' <= lost'
      BY <2>1, <3>1, SettledLosses
    <3>9. pc' \notin OpSteps
      BY <1>o, <3>4
    <3> QED BY <1>i, <2>1, <3>1, <3>4, <3>5, <3>6, <3>7, <3>8, <3>9 DEF InitCalm
  <2> QED BY <1>c, <2>2, InitFault
\* The steps after the type of the card is known.
<1>t. ASSUME NEW step \in LateInit, pc = step, NEW next \in {"init block", "init csd"}, pc' = next, InitCalm,
             card'.kind = card.kind, card'.mode = Tran, card'.power = card.power,
             host'.supports_crc = host.supports_crc, host'.type = host.type, try' <= lost'
      PROVE  pc' \in InitSteps /\ InitCalm'
  <2>1. card.power = "ready" /\ host.type = Type(card.kind.v)
    BY <1>t DEF InitCalm
  <2>2. pc' \notin EarlyInit /\ pc' \in InitSteps
    BY <1>e, <1>i, <1>t
  <2> QED BY <1>t, <2>1, <2>2 DEF InitCalm
<1>11. ASSUME NEW step \in LateInit, pc = step, NEW next \in {"init block", "init csd"}, Continue(next, host),
              UNCHANGED <<data, try, card, faults>>
       PROVE  FaultInv'
  <2>1. /\ pc' = next /\ host' = host /\ card' = card /\ try' = try /\ lost' = lost /\ spoilt' = spoilt
    BY <1>11, InitSkipStep
  <2>2. ASSUME Calm'
        PROVE  pc' \in InitSteps /\ InitCalm'
    <3>1. InitCalm
      BY <1>b, <2>1, <2>2
    <3>2. card.mode = Tran /\ try <= lost
      BY <1>q, <1>11, <3>1 DEF InitCalm
    <3> QED BY <1>t, <1>11, <2>1, <3>1, <3>2
  <2> QED BY <1>c, <2>2, InitFault
<1>12. ASSUME NEW step \in LateInit, pc = step, NEW next \in {"init block", "init csd"}, NEW cmd,
              Walked(cmd, 0, 0, next), pc' = next => host'.type = host.type,
              cmd \notin Transfers \cup {"GO_IDLE_STATE", "APP_OP_COND", "SEND_OP_COND"},
              InitCalm /\ (card.crcOn => host.supports_crc) => Token(cmd, 0) = 0
       PROVE  FaultInv'
  <2>1. ASSUME Calm'
        PROVE  pc' \in InitSteps /\ InitCalm'
    <3>1. InitCalm /\ try <= lost /\ (card.crcOn => host.supports_crc)
      BY <1>w, <1>12, <2>1
    <3>2. card.mode = Tran
      BY <1>q, <1>12, <3>1
    <3>3. /\ pc' = next
          /\ card'.kind = card.kind /\ card'.mode = Tran /\ card'.power = card.power
          /\ host'.supports_crc = host.supports_crc /\ try' <= lost'
      BY <1>12, <2>1, <3>1, <3>2, CalmWalk
    <3> QED BY <1>t, <1>12, <3>1, <3>3
  <2> QED BY <1>c, <2>1, InitFault
<1>13. CASE InitDetect
  <2>1. \/ pc = "init detect" /\ Continue("init block", host) /\ UNCHANGED <<data, try, card, faults>>
        \/ host.type # "CARD_MMC" /\ Probed("init detect", "APP_CLR_CARD_DETECT", 0, 0, "init block")
    BY <1>13, ProbeForms
  <2>2. "init detect" \in LateInit
        /\ "APP_CLR_CARD_DETECT" \notin Transfers \cup {"GO_IDLE_STATE", "APP_OP_COND", "SEND_OP_COND"}
    BY DEF LateInit, Transfers
  <2>3. CASE host.type # "CARD_MMC" /\ Probed("init detect", "APP_CLR_CARD_DETECT", 0, 0, "init block")
    <3>1. /\ pc = "init detect" /\ Walked("APP_CLR_CARD_DETECT", 0, 0, "init block")
          /\ pc' = "init block" => host'.type = host.type
      BY <1>n, <2>3, ProbedStep
    <3>2. InitCalm /\ (card.crcOn => host.supports_crc) => Token("APP_CLR_CARD_DETECT", 0) = 0
      <4>1. InitCalm => card.power = "ready" /\ card.mode = Tran /\ host.type = Type(card.kind.v)
        BY <1>q, <2>2, <3>1 DEF InitCalm
      <4>2. InitCalm => card.kind.v # "MMC"
        BY <2>3, <4>1, Types
      <4> QED BY <4>1, <4>2, RecognisedTokens
    <3> QED BY <1>12, <2>2, <3>1, <3>2
  <2> QED BY <1>11, <2>1, <2>2, <2>3
<1>14. CASE InitBlockLen
  <2>1. \/ pc = "init block" /\ Continue("init csd", host) /\ UNCHANGED <<data, try, card, faults>>
        \/ Probed("init block", "SET_BLOCKLEN", 0, 0, "init csd")
    BY <1>14, ProbeForms
  <2>2. "init block" \in LateInit
        /\ "SET_BLOCKLEN" \notin Transfers \cup {"GO_IDLE_STATE", "APP_OP_COND", "SEND_OP_COND"}
    BY DEF LateInit, Transfers
  <2>3. CASE Probed("init block", "SET_BLOCKLEN", 0, 0, "init csd")
    <3>1. /\ pc = "init block" /\ Walked("SET_BLOCKLEN", 0, 0, "init csd")
          /\ pc' = "init csd" => host'.type = host.type
      BY <1>n, <2>3, ProbedStep
    <3>2. InitCalm /\ (card.crcOn => host.supports_crc) => Token("SET_BLOCKLEN", 0) = 0
      BY <1>q, <2>2, <3>1, RecognisedTokens
    <3> QED BY <1>12, <2>2, <3>1, <3>2
  <2> QED BY <1>11, <2>1, <2>2, <2>3
<1>15. CASE InitSectors
  <2>1. /\ pc = "init csd" /\ Settled /\ pc' = "idle" /\ result' = "RES_OK"
        /\ card'.kind = card.kind /\ host'.type = host.type
    BY <1>n, <1>15, InitSectorsStep
  <2>2. Calm' => host.type = Type(card.kind.v)
    <3>1. Calm' => InitCalm
      BY <1>b, <1>s, <2>1
    <3> QED BY <1>l, <2>1, <3>1 DEF InitCalm
  <2> QED BY <1>c, <2>1, <2>2, InitFault
<1> QED BY <1>2, <1>3, <1>4, <1>5, <1>6, <1>7, <1>8, <1>9, <1>10, <1>13, <1>14, <1>15
        DEF ff_sd_initialize

LEMMA InitFaults ==
    ASSUME TypeInv, TypeInv', CrcInv, FaultInv, ff_sd_initialize
    PROVE  FaultInv'
<1>1. pc \in InitSteps
  BY InitMoves DEF InitMove
<1> QED BY <1>1, InitRepeatFaults, InitAnswered

\* A call that begins without a fault, and the steps of the other calls.
LEMMA OtherFaults ==
    ASSUME TypeInv, TypeInv', op'.kind \notin {"init", "read", "write"}
    PROVE  FaultInv'
<1>1. pc' \notin InitSteps /\ pc' \notin ReadSteps /\ pc' \notin WriteSteps
  BY DEF TypeInv, CallSteps
<1> QED BY <1>1 DEF FaultInv, FaultsTolerated

LEMMA CallFaults ==
    ASSUME TypeInv, TypeInv', FaultInv, Called \/ Swap
    PROVE  FaultInv'
<1>1. CASE Called
  <2>1. /\ <<op'.kind, pc'>> \in Calls /\ host' = host /\ card' = card
        /\ try' = 0 /\ f' = 0 /\ done' = 0 /\ lost' = 0 /\ answer' = 5
    BY <1>1, Calling
  <2>2. 0 + 0 <= 0 /\ 0 <= 0
    OBVIOUS
  <2>3. CASE op'.kind = "init"
    <3>1. pc' = "init"
      BY <2>1, <2>3 DEF Calls
    <3>2. op'.able => host.supports_crc \/ ~card.kind.crc
      BY <1>1, <2>3, Calling
    <3>3. pc' \notin EarlyInit /\ pc' \notin OpSteps /\ pc' \notin LateInit /\ pc' \in InitSteps
      BY <3>1 DEF EarlyInit, OpSteps, LateInit, InitSteps
    <3>4. Calm' => InitCalm'
      BY <2>1, <2>2, <3>1, <3>2, <3>3 DEF InitCalm, Calm
    <3> QED BY <2>3, <3>3, <3>4, InitFault
  <2>4. op'.kind \in {"read", "write"} /\ op'.able => card.power = "ready" /\ card.mode = Tran
    BY <1>1, Calling DEF Able
  <2>5. CASE op'.kind = "read"
    <3>1. pc' = "read"
      BY <2>1, <2>5 DEF Calls
    <3>2. Calm' => ReadCalm'
      BY <2>1, <2>2, <2>4, <2>5, <3>1 DEF ReadCalm, Calm
    <3> QED BY <2>5, <3>1, <3>2, ReadFault DEF ReadSteps
  <2>6. CASE op'.kind = "write"
    <3>1. pc' \in {"write", "write erase"}
      BY <2>1, <2>6 DEF Calls
    <3>2. Calm' => WriteCalm'
      BY <2>1, <2>2, <2>4, <2>6, <3>1 DEF WriteCalm, Calm
    <3> QED BY <2>6, <3>1, <3>2, WriteFault DEF WriteSteps
  <2> QED BY <2>3, <2>5, <2>6, OtherFaults
<1>2. CASE Swap
  <2>1. CASE pc = "idle"
    <3>1. pc' = "idle" /\ result' = "none" /\ op'.kind = "none"
      BY <1>2, <2>1 DEF Swap, Forgotten
    <3>2. "idle" \notin InitSteps /\ "idle" \notin ReadSteps /\ "idle" \notin WriteSteps
      BY DEF InitSteps, ReadSteps, WriteSteps
    <3> QED BY <3>1, <3>2 DEF FaultInv, FaultsTolerated
  <2>2. CASE pc # "idle"
    <3>1. spoilt' = TRUE
      BY <1>2, <2>2 DEF Swap
    <3> QED BY <3>1, NotCalm DEF Calm
  <2> QED BY <2>1, <2>2
<1> QED BY <1>1, <1>2

\* Every step keeps what is promised of a calm call.
LEMMA NextFaults ==
    ASSUME TypeInv, AddressInv, BusInv, CrcInv, FaultInv, [Next]_vars
    PROVE  FaultInv'
<1>0. TypeInv'
  BY NextTyped
<1>1. CASE UNCHANGED vars
  BY <1>1, ZenonT(40) DEF vars, call, data, faults, FaultInv, FaultsTolerated, Returned, Calm, InitCalm, ReadCalm, WriteCalm
<1>2. CASE ff_sd_status \/ ff_sd_ioctl_Sync \/ EndBegin
  <2>1. pc \in {"status", "sync", "end"} /\ op' = op
    <3>1. CASE ff_sd_status
      BY <3>1, TypeParts, Repeating, OtherForms, StatusStep DEF Kept
    <3>2. CASE ff_sd_ioctl_Sync
      BY <3>2, SyncStep DEF Kept
    <3>3. CASE EndBegin
      BY <3>3, TypeParts, Repeating, OtherForms, EndStep
    <3> QED BY <1>2, <3>1, <3>2, <3>3
  <2>2. op'.kind \notin {"init", "read", "write"}
    BY <2>1 DEF TypeInv, CallSteps
  <2> QED BY <1>0, <2>2, OtherFaults
<1> QED BY <1>0, <1>1, <1>2, InitFaults, ReadFaults, WriteFaults, CallFaults DEF Next

LEMMA InitialFaults ==
    ASSUME Init
    PROVE  FaultInv
<1>1. pc = "idle" /\ op.kind = "none"
  BY DEF Init
<1>2. "idle" \notin InitSteps /\ "idle" \notin ReadSteps /\ "idle" \notin WriteSteps
  BY DEF InitSteps, ReadSteps, WriteSteps
<1> QED BY <1>1, <1>2 DEF FaultInv, FaultsTolerated

\* What a call without any fault but losses has come to, and how many it has lost.
THEOREM FaultInvariant == Spec => []FaultInv
<1>1. Init => FaultInv
  BY InitialFaults
<1>2. TypeInv /\ AddressInv /\ BusInv /\ CrcInv /\ FaultInv /\ [Next]_vars => FaultInv'
  BY NextFaults
<1> QED BY <1>1, <1>2, TypeInvariant, Addresses, BusInvariant, CrcInvariant, PTL DEF Spec

\* Two commands or blocks read that are lost in one call, anywhere in it, are made
\* good by the attempts of sdCommand and ff_sd_read: a card that was there and ready
\* is read and written, and a new one is recognised for what it is.  The same holds
\* of answers to commands the card had executed, but for those that begin or end a
\* transfer, which the card does not take twice.
THEOREM FaultsAlwaysTolerated == Spec => []FaultsTolerated
<1>1. FaultInv => FaultsTolerated
  BY DEF FaultInv
<1> QED BY <1>1, FaultInvariant, PTL

=============================================================================

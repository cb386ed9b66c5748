------------------------------ MODULE MCSlave ------------------------------
(***************************************************************************)
(* Datagrams and replies for model-checking Slave.  The mirror has two     *)
(* cells per mailbox: SM0 at 15..16 and SM1 at 17..18.                     *)
(***************************************************************************)
EXTENDS Slave

STATION == 1

Fpwr(ado, data) == [cmd |-> "FPWR", adp |-> STATION, ado |-> ado, data |-> data]
Fprd(ado, data) == [cmd |-> "FPRD", adp |-> STATION, ado |-> ado, data |-> data]

SetStation == [cmd |-> "APWR", adp |-> LOGICAL_POSITION, ado |-> STADR,
               data |-> <<STATION>>]

SmConfig(k, start, length, mode, activate) ==
  Fpwr(SmBase(k), <<start, length, mode, 0, activate>>)

Sm0On  == SmConfig(0, MBX_BASE, 2, MODE_MBX, 1)
Sm0Buf == SmConfig(0, MBX_BASE, 2, MODE_BUF, 1)
Sm1On  == SmConfig(1, MBX_BASE + 2, 2, MODE_MBX, 1)
Sm1Nil == SmConfig(1, MBX_BASE + 2, 0, MODE_MBX, 1)

(* Every AL request the master can form, legal or not, an acknowledgement  *)
(* of every state, and the bus traffic around them that a slave ignores.   *)
AlDatagrams ==
  { Fpwr(ALCTL, <<w>>) : w \in (AlStates \cup {AL_BOOT, 5})
                               \cup {s + BIT4 : s \in AlStates} }
  \cup { SetStation, Sm0On, Sm0Buf, Sm1On, Sm1Nil,
         [cmd |-> "APWR", adp |-> LOGICAL_POSITION, ado |-> STADR,
          data |-> <<STATION, AL_INIT + BIT4>>],
         [cmd |-> "FPWR", adp |-> 2, ado |-> ALCTL, data |-> <<AL_INIT>>],
         [cmd |-> "APWR", adp |-> 1, ado |-> ALCTL, data |-> <<AL_INIT>>],
         [cmd |-> "other", adp |-> STATION, ado |-> ALCTL, data |-> <<AL_INIT>>],
         Fpwr(ESC_SIZE - 1, <<1, 1>>) }

(* The AL traffic with a mailbox each side of which is used, in full and   *)
(* from its last byte.                                                     *)
EveryDatagram ==
  AlDatagrams \cup { Fpwr(SmBase(1) + 4, <<0>>),
                     Fpwr(MBX_BASE, <<1, 1>>), Fpwr(MBX_BASE + 1, <<1>>),
                     Fprd(MBX_BASE + 2, <<0, 0>>), Fprd(MBX_BASE + 3, <<0>>) }
EveryReply == { <<1, 1>>, <<1>>, <<1, 1, 1>> }

ASSUME MCDiscipline == BusDiscipline /\ Sm1Discipline

=============================================================================

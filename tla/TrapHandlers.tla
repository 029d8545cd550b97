----------------------------- MODULE TrapHandlers -----------------------------
(***************************************************************************)
(* TrapRouter, CienaTrapHandler and GenericTrapHandler as operators: the   *)
(* event a decoded trap becomes.  Of its variable bindings the model keeps *)
(* what alarm ids are made of.                                             *)
(***************************************************************************)
EXTENDS Naturals

CONSTANTS Sources, Objects, AlarmIds, Texts, Absent

\* Trap OIDs by name; "other" is any OID the receiver has no entry for.
AlarmKinds    == {"alarmRaised", "alarmCleared"}
RapsKinds     == {"rapsStateChange", "rapsSwitchover"}
CfmKinds      == {"cfmDefect", "cfmDefectCleared"}
PortKinds     == {"portLinkUp", "portLinkDown"}
CienaKinds    == AlarmKinds \cup RapsKinds \cup CfmKinds \cup PortKinds
LinkKinds     == {"linkUp", "linkDown"}
StandardKinds == LinkKinds \cup {"coldStart", "warmStart", "authFailure",
                                 "egpNeighborLoss"}
Kinds         == CienaKinds \cup StandardKinds \cup {"other"}

\* object: the interface, ring or alarm object; id: the alarm's own id; text:
\* its description.  enterprise: the vendor of the enterprise OID.
Trap == [source : Sources, kind : Kinds, enterprise : {"ciena", "cisco", "none"},
         object : Objects \cup {Absent}, id : AlarmIds \cup {Absent},
         text : Texts]

\* The Ciena prefixes come first and match either OID.
Route(t) == IF t.enterprise = "ciena" \/ t.kind \in CienaKinds THEN "ciena"
            ELSE IF t.enterprise # "none" THEN t.enterprise
            ELSE IF t.kind \in StandardKinds THEN "standard"
            ELSE "generic"

\* The alarm id, a formatted string, is the sequence of its parts; <<>> is
\* None.  hash() of a string differs from one process to the next.
CienaAlarmId(t, process) ==
  CASE t.kind \in AlarmKinds /\ t.id # Absent -> <<t.id>>
    [] t.kind \in AlarmKinds /\ t.id = Absent -> <<t.source, t.object, t.text>>
    [] t.kind \in PortKinds \cup LinkKinds    -> <<t.source, "link", t.object>>
    [] t.kind \in RapsKinds /\ t.object # Absent ->
         <<t.source, "raps", t.object>>
    [] t.kind \in CfmKinds ->
         <<t.source, "cfm", <<process, t.object, t.id, t.text>>>>
    [] OTHER -> <<>>

GenericAlarmId(t) == IF t.kind \in LinkKinds THEN <<t.source, t.kind>> ELSE <<>>

AlarmId(t, process) == IF Route(t) = "ciena" THEN CienaAlarmId(t, process)
                       ELSE GenericAlarmId(t)

IsClear(t) ==
  \/ t.kind = "linkUp"
  \/ t.kind \in {"alarmCleared", "portLinkUp", "cfmDefectCleared"}
=============================================================================

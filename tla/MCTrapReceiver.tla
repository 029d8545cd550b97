---------------------------- MODULE MCTrapReceiver ----------------------------
(***************************************************************************)
(* Instances of TrapReceiver: the loop and its queue with one kind of      *)
(* trap, and the correlation of alarms over a few traps.                   *)
(***************************************************************************)
EXTENDS TrapReceiver, TLC

CONSTANTS d1, d2, p1, a1, x, w1, w2

TwoSources == {d1, d2}
OneObject  == {p1}
OneId      == {a1}
OneText    == {x}
TwoWorkers == {w1, w2}

T(source, kind, enterprise, object, id) ==
  [source |-> source, kind |-> kind, enterprise |-> enterprise,
   object |-> object, id |-> id, text |-> x]

ColdStart == {T(d1, "coldStart", "none", Absent, Absent)}

\* A Ciena alarm without an id of its own, its clear, and a link trap.
Alarms == {T(d1, "alarmRaised", "ciena", p1, Absent),
           T(d1, "alarmCleared", "ciena", p1, Absent),
           T(d1, "linkDown", "none", Absent, Absent)}

\* A Ciena alarm without an id of its own and its clear.
RaiseAndClear == {T(d1, "alarmRaised", "ciena", p1, Absent),
                  T(d1, "alarmCleared", "ciena", p1, Absent)}

\* The same alarm id on two devices.
Numbered == {T(d1, "alarmRaised", "ciena", p1, a1),
             T(d2, "alarmRaised", "ciena", p1, a1)}

Links == {T(d1, "linkDown", "cisco", p1, Absent),
          T(d1, "linkUp", "cisco", p1, Absent)}

Cfm == {T(d1, "cfmDefect", "ciena", p1, Absent),
        T(d1, "cfmDefectCleared", "ciena", p1, Absent)}

Symmetric == Permutations({w1, w2})
=============================================================================

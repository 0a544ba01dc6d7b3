--------------------------- MODULE MCIngestHabits ---------------------------
(***************************************************************************)
(* One operator has habits: the histories met and the command lines used   *)
(* in one behaviour.  Habits add their state spaces where a free choice    *)
(* would multiply them, and keep apart an indexer with an end ledger and   *)
(* one without, which rewind each other's cursor (see the README).         *)
(***************************************************************************)
EXTENDS MCIngest

VARIABLE habit

Habits ==
  {[options |-> o, chains |-> MCChains] : o \in {MCOptions, MCPlainOptions, MCFixtureOptions}}
    \cup {[options |-> MCAnyOptions, chains |-> MCOtherChains]}

MCAllOptions == UNION {h.options : h \in Habits}
MCAllChains == UNION {h.chains : h \in Habits}

\* A server nobody asks has nothing to say, and a history ends somewhere.
Speaks(s) ==
  /\ \E o \in habit.options : o.server = s
  /\ habit.chains = MCOtherChains => latest[s] < 3

HabitInit == habit \in Habits /\ Init /\ chain \in habit.chains

HabitNext ==
  /\ Next /\ UNCHANGED habit
  /\ \A p \in Processes : pc'[p] = "down" \/ pc[p] # "down" \/ options'[p] \in habit.options
  /\ \A s \in Servers : latest'[s] = latest[s] \/ Speaks(s)

\* A process that is neither killed nor refused goes on: promises and timers
\* settle.  Nothing makes an operator start one or a network close a ledger.
HabitSpec ==
  /\ HabitInit /\ [][HabitNext]_<<vars, habit>>
  /\ \A p \in Processes : WF_<<vars, habit>>(Run(p) /\ UNCHANGED habit)
=============================================================================

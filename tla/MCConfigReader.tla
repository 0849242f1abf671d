---------------------------- MODULE MCConfigReader ----------------------------
\* Route files for ConfigReader: lines that define and use macros, sentences, a
\* setting, other files.
EXTENDS ConfigReader

\* Macros of one word, of several, with a command in them, nested and circular
\* ones, and one that the next lines finish.
Definitions ==
  { << "DEFINE", "BOSS", "a", "ENDDEFINE", "DEFINE", "WORLD", "b", "c", "ENDDEFINE" >>,
    << "DEFINE", "LOOP", "LOOP", "ENDDEFINE", "DEFINE", "ONE", "TWO", "ENDDEFINE",
       "DEFINE", "TWO", "ONE", "ENDDEFINE" >>,
    << "DEFINE", "GO", "ROUTE-TO", "BOSS", "WORLD", "ENDDEFINE" >>,
    << "DEFINE", "GO", "ONE" >> }

Uses ==
  { << "ROUTE-TO", "BOSS", "CRASH", "MON" >>,
    << "GO" >>,
    << "NETMAIL", "b", "GO" >>,
    << "LOOP" >>,
    << "WORLD", "MYZONES" >>,
    << "NETMAIL" >>,
    << "TOPDOWN", "ENDDEFINE" >>,
    << "EOLENDSCOMMAND", "INCLUDE", "f" >>,
    << "GO", "INCLUDE", "BOSS" >>,
    << "DEFINE" >>, << "MON", "a" >> }

LinesRead == Definitions \cup Uses

OwnWords == [m \in {"MYZONES"} |-> << "a", "bad" >>]

\* One macro of several words.
LinesOfMacro ==
  { << "DEFINE", "GO", "ROUTE-TO", "BOSS", "WORLD", "ENDDEFINE" >>, << "GO" >> }

\* Every word of these.
WordsRead ==
  {"a", "bad"} \cup
    UNION {{l[i] : i \in DOMAIN l} : l \in LinesRead \cup LinesOfMacro}
=============================================================================

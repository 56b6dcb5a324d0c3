---------------------------- MODULE MCAudioPath ----------------------------
(* A return of two samples in a ring of four, and blocks longer than it.   *)
EXTENDS AudioPath

\* Double on and off, with no string sounding.
Doubler == [modes |-> {"Stereo", "Double"}, bypass |-> {TRUE}, plays |-> FALSE]
\* Notes that come and go while the stereo field opens and closes and the effects
\* are switched.
Wide == [modes |-> {"Mono", "Stereo"}, bypass |-> BOOLEAN, plays |-> TRUE]

TwoHosts == {Doubler, Wide}
=============================================================================

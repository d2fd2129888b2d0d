---------------------------- MODULE MCSseStream ----------------------------
(* Instances of SseStream for TLC.                                           *)
EXTENDS SseStream

Singles == {<<k>> : k \in Kinds}

(* Usage before a tally and a text after it: an event that is dropped stands *)
(* next to one that is not, on either side.                                  *)
Series == Singles \cup {<<"usage", "tally">>, <<"tally", "text">>}
=============================================================================

-------------------------- MODULE MCChatToMessages --------------------------
(* The chunks upstreams are known to send: a call whole or in parts, in any  *)
(* order, two calls interleaved, several things in one chunk, finish_reason  *)
(* with and without usage, usage alone.                                      *)
EXTENDS ChatToMessages

Mute == [choice |-> TRUE, thinking |-> FALSE, text |-> FALSE, calls |-> <<>>,
         finish |-> FALSE, usage |-> FALSE]

Call(t, id, name, args) == [tool |-> t, id |-> id, name |-> name, args |-> args]

Calls(t) == {Call(t, "real", "real", "none"), Call(t, "real", "real", "plain"),
             Call(t, "real", "none", "plain"), Call(t, "none", "real", "none"),
             Call(t, "none", "none", "plain"), Call(t, "none", "none", "blank"),
             Call(t, "blank", "blank", "plain")}

Upstream ==
    {[Mute EXCEPT !.thinking = TRUE], [Mute EXCEPT !.text = TRUE],
     [Mute EXCEPT !.thinking = TRUE, !.text = TRUE],
     [Mute EXCEPT !.finish = TRUE], [Mute EXCEPT !.finish = TRUE, !.usage = TRUE],
     [Mute EXCEPT !.choice = FALSE, !.usage = TRUE],
     [Mute EXCEPT !.text = TRUE, !.calls = <<Call("call0", "real", "real", "plain")>>, !.finish = TRUE],
     [Mute EXCEPT !.calls = <<Call("call0", "real", "real", "none"), Call("call1", "real", "real", "plain")>>],
     [Mute EXCEPT !.calls = <<Call("call1", "none", "none", "plain"), Call("call0", "none", "none", "plain")>>]}
    \cup {[Mute EXCEPT !.calls = <<call>>] : call \in Calls("call0") \cup Calls("call1")}
=============================================================================

----------------------------- MODULE MCToolLoop -----------------------------
(* An instance of ToolLoop: every symbol alone, but for a '<', which comes *)
(* together with a word before or after it, and tokens of two that bring a *)
(* whole trigger, of either kind, into three tokens.                       *)
EXTENDS ToolLoop

Tokens ==
  {<<s>> : s \in Symbol \ {"<"}} \cup
    {<<"text", "<">>, <<"<", "TRIGGER:">>, <<">", "{">>, <<"}", "</TRIGGER>">>}

\* Descendants that inherit all three, and end together.
SomeHeirs == {{}, Pipe}

=============================================================================

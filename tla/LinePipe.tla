-------------------------------- MODULE LinePipe --------------------------------
(***************************************************************************)
(* What IRCClient.send promises to the handlers and commands that call it:    *)
(* a line joins the pipe of the present connection.  Lines come out in order,  *)
(* each once, or are lost with their connection; none reaches a later one.     *)
(***************************************************************************)
EXTENDS Naturals, Sequences

CONSTANT Lines

VARIABLES
  up,     \* whether there is a connection
  pipe,   \* lines accepted and not yet out
  got     \* every line that came out, in order

pipeVars == <<up, pipe, got>>

PipeInit == up \in BOOLEAN /\ pipe = <<>> /\ got = <<>>

PipeOpen == ~up /\ up' /\ pipe' = <<>> /\ UNCHANGED got
Put == up /\ (\E line \in Lines : pipe' = Append(pipe, line)) /\ UNCHANGED <<up, got>>
Get == up /\ pipe # <<>> /\ pipe' = Tail(pipe) /\ got' = Append(got, Head(pipe)) /\ UNCHANGED up
PipeClose == up /\ ~up' /\ pipe' = <<>> /\ UNCHANGED got

PipeSpec == PipeInit /\ [][PipeOpen \/ Put \/ Get \/ PipeClose]_pipeVars

=============================================================================

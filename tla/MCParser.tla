------------------------------ MODULE MCParser ------------------------------
(***************************************************************************)
(* A text on its way to the server, byte by byte (Channel), and what       *)
(* becomes of it there, in three parts: which statements are taken         *)
(* (Syntax), the tree of an expression (ExprProps), the value of a tree    *)
(* (MCFolding).  The parts are checked one by one in one run.  part says   *)
(* which; the variables of the others stay as they are.                    *)
(***************************************************************************)
EXTENDS Syntax, ExprProps, MCFolding, Channel

VARIABLE part

Idle(p) ==
  /\ p # "statement" => verdict = "idle" /\ pending = <<>> /\ int = FALSE
                        /\ word = "other" /\ reading = "must" /\ open = {}
  /\ p # "expression" => lexem = "end" /\ text = <<>> /\ tree = <<New>>
                         /\ calls = <<Activation(1, 255, "nothing")>> /\ saved_op = "none"
  /\ p # "value" => node = <<>> /\ expr = <<>> /\ prev = <<>> /\ stack = <<>>
                    /\ status = "idle" /\ original = <<>>

PartsInit ==
  /\ part \in {"statement", "expression", "value", "channel"}
  /\ Idle(part)
  /\ ChannelInit
  /\ part = "statement" => SyntaxInit
  /\ part = "expression" => ExprInit
  /\ part = "value" => FoldedInit

PartsNext ==
  /\ UNCHANGED part
  /\ \/ part = "statement" /\ SyntaxNext /\ UNCHANGED <<exprVars, foldingVars, channelVars>>
     \/ part = "expression" /\ ExprNext /\ UNCHANGED <<syntaxVars, foldingVars, channelVars>>
     \/ part = "value" /\ FoldNext /\ UNCHANGED <<original, syntaxVars, exprVars, channelVars>>
     \/ part = "channel" /\ ChannelNext /\ UNCHANGED <<syntaxVars, exprVars, foldingVars>>

allParts == <<part, syntaxVars, exprVars, foldingVars, channelVars>>

PartsSpec ==
  /\ PartsInit /\ [][PartsNext]_allParts
  /\ WF_allParts(part = "value" /\ PartsNext)
  /\ WF_allParts(part = "channel" /\ UNCHANGED part /\ ReceiverGoesOn
                   /\ UNCHANGED <<syntaxVars, exprVars, foldingVars>>)

WalkOfValueEnds == part = "value" => WalkEnds
=============================================================================

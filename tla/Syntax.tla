------------------------------- MODULE Syntax -------------------------------
(***************************************************************************)
(* The syntax trees of AST.hpp.  A node is a record with the same fields   *)
(* for every class, so that nodes can be compared: its kind, the name it   *)
(* carries, the names it declares, the value of a literal, its children,   *)
(* and the further messages of a cascade.                                  *)
(***************************************************************************)
EXTENDS Oops

Node(kind, name, names, value, kids, chain) ==
  [kind |-> kind, name |-> name, names |-> names, value |-> value, kids |-> kids, chain |-> chain]

SelfReference        == Node("self", "", << >>, nil, << >>, << >>)
SuperReference       == Node("super", "", << >>, nil, << >>, << >>)
ThisContextReference == Node("thisContext", "", << >>, nil, << >>, << >>)
LiteralNode(oop)     == Node("literal", "", << >>, oop, << >>, << >>)
IdentifierExpression(name) == Node("identifier", name, << >>, nil, << >>, << >>)

AssignmentExpression(reference, value) ==
  Node("assignment", "", << >>, nil, <<reference, value>>, << >>)

\* The receiver is the first child, the arguments follow.
MessageSendNode(receiver, selector, arguments, chained) ==
  Node("send", selector, << >>, nil, <<receiver>> \o arguments, chained)

\* A message of a cascade has no receiver of its own.
ChainedMessage(selector, arguments) == Node("message", selector, << >>, nil, arguments, << >>)

SequenceNode(locals, children) == Node("sequence", "", locals, nil, children, << >>)
BlockExpression(arguments, body) == Node("block", "", arguments, nil, <<body>>, << >>)
ReturnStatement(value) == Node("return", "", << >>, nil, <<value>>, << >>)

\* The value is the class the method is compiled for; the number of a primitive
\* pragma, if it has one, is the value of the one message in its chain.
MethodAST(class, selector, arguments, pragmas, body) ==
  Node("method", selector, arguments, ClassOop(class), <<body>>, pragmas)

PragmaDefinition(number) == Node("pragma", "primitive:", << >>, Word("int", number, ""), << >>, << >>)

isBlockExpression(node)      == node.kind = "block"
isIdentifierExpression(node) == node.kind = "identifier"
isSuperReference(node)       == node.kind = "super"

\* The messages of a cascade in order: the node itself, then the chain.
Messages(node) == <<[selector |-> node.name, arguments |-> Tail(node.kids)]>>
                    \o [i \in DOMAIN node.chain |->
                          [selector |-> node.chain[i].name, arguments |-> node.chain[i].kids]]
=============================================================================

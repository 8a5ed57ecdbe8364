---------------------------- MODULE ContractMacro ----------------------------
(***************************************************************************)
(* near-kit-macros/src/lib.rs: #[near_kit::contract], which turns a trait  *)
(* into a client.  A method of the trait is its receiver, its attributes   *)
(* and its arguments; a generated method is the request it makes.          *)
(***************************************************************************)
EXTENDS Inputs, FiniteSets, SequencesExt

CONSTANT MaxItems   \* bound: methods of a trait

\* ContractArgs: #[contract], #[contract(json)], #[contract(borsh)].
ContractArgs(written) ==
    CASE written \in {"absent", "json"} -> Ok("json")
      [] written = "borsh" -> Ok("borsh")
      [] OTHER -> Fail("unknown format")

\* CallArgs: #[call], #[call(payable)].
CallArgs(written) ==
    CASE written \in {"absent", "plain"} -> Ok([payable |-> FALSE])
      [] written = "payable" -> Ok([payable |-> TRUE])
      [] OTHER -> Fail("unknown call option")

\* The override of a method: #[json] wins over #[borsh].
FormatOverride(attributes) ==
    IF "json" \in attributes THEN "json" ELSE IF "borsh" \in attributes THEN "borsh" ELSE "none"

\* Checks in the order of the code.  The argument is known by its name: one
\* bound by another pattern has none.
parse_method(method) ==
    LET is_view == method.receiver = "&self"
        is_call == method.call # "absent"
    IN  CASE method.receiver \notin {"&self", "&mut self"} -> Fail("receiver")
          [] method.receiver \in {"&self", "&mut self"} /\ ~CallArgs(method.call).ok -> CallArgs(method.call)
          [] is_view /\ is_call /\ CallArgs(method.call).ok -> Fail("view methods should not have #[call]")
          [] method.receiver = "&mut self" /\ ~is_call -> Fail("call methods must have #[call]")
          [] OTHER ->
                IF Len(method.args) > 1 THEN Fail("at most one argument")
                ELSE Ok([name |-> method.name, is_view |-> is_view,
                         format_override |-> FormatOverride(method.formats),
                         arg_name |-> method.args # <<>> /\ method.args[1] = "named"])

Format(m, contract_format) == IF m.format_override = "none" THEN contract_format ELSE m.format_override

\* What is sent as arguments: the argument in its format, without one an
\* empty JSON object, or nothing.
Payload(m, format) ==
    CASE m.arg_name -> [format |-> format, args |-> "argument"]
      [] ~m.arg_name /\ format = "json" -> [format |-> format, args |-> "{}"]
      [] OTHER -> [format |-> format, args |-> "none"]

generate_view_method(m, contract_format) ==
    LET format == Format(m, contract_format)
    IN  [name |-> m.name, makes |-> "ViewCall", sends |-> Payload(m, format), reads |-> format]

generate_call_method(m, contract_format) ==
    [name |-> m.name, makes |-> "CallBuilder", sends |-> Payload(m, Format(m, contract_format)), reads |-> "outcome"]

\* Variant: the override of the method is not looked at.
generate_function_call_method_default(m, contract_format) ==
    [name |-> m.name, makes |-> "FunctionCall", sends |-> Payload(m, contract_format)]

generate_function_call_method(m, contract_format) ==
    [name |-> m.name, makes |-> "FunctionCall", sends |-> Payload(m, Format(m, contract_format))]

\* contract_impl: features of the trait are rejected first, then the items in
\* order; one that is rejected rejects the trait.  What is generated is known
\* by the position of its method; view methods have no FunctionCall.
contract_impl(format, item_trait) ==
    LET item(i) == item_trait.items[i]
        method(i) ==
            CASE item(i).kind # "fn" -> Fail("only methods")
              [] item(i).kind = "fn" /\ item(i).default -> Fail("no default implementations")
              [] OTHER -> parse_method(item(i))
        client(m) == IF m.is_view THEN generate_view_method(m, format) ELSE generate_call_method(m, format)
        methods == [i \in DOMAIN item_trait.items |-> method(i).value]
    IN  CASE item_trait.feature # "plain" -> Fail("unsupported feature")
          [] item_trait.feature = "plain" /\ \E i \in DOMAIN item_trait.items : ~method(i).ok ->
                method(SelectInSeq([i \in DOMAIN item_trait.items |-> method(i).ok], LAMBDA parsed : ~parsed))
          [] OTHER ->
                Ok([client |-> [i \in DOMAIN methods |-> client(methods[i])],
                    calls |-> [i \in {j \in DOMAIN methods : ~methods[j].is_view} |->
                                 generate_function_call_method(methods[i], format)]])

\* The attribute macro.
contract(attr, item_trait) ==
    LET format == ContractArgs(attr) IN IF format.ok THEN contract_impl(format.value, item_trait) ELSE format
-----------------------------------------------------------------------------
(* Exercise: traits of one method, and more behind it.  Methods are named  *)
(* by their position.                                                      *)

TraitItems ==
    [kind : {"fn"}, name : {1}, receiver : {"none", "self", "&self", "&mut self"},
     call : {"absent", "plain", "payable", "other"}, formats : SUBSET {"json", "borsh"},
     args : {<<>>, <<"named">>, <<"pattern">>, <<"named", "named">>}, default : {FALSE}]
    \cup [kind : {"fn", "type"}, name : {1}, receiver : {"&self"}, call : {"absent"}, formats : {{}},
          args : {<<>>}, default : {TRUE}]

\* A further method of a trait, of each sort that is accepted.
FurtherItems(name) ==
    {m \in [kind : {"fn"}, name : {name}, receiver : {"&self", "&mut self"}, call : {"absent", "plain"},
            formats : {{}, {"borsh"}}, args : {<<"named">>}, default : {FALSE}] :
        m.receiver = "&self" <=> m.call = "absent"}

ExpandTrait ==
    /\ Given("none")
    /\ \E attr \in {"absent", "json", "borsh", "other"}, feature \in {"plain", "unsafe", "generic"}, first \in TraitItems :
          input' = [of |-> "trait", attr |-> attr, trait |-> [feature |-> feature, items |-> <<first>>]]

AddMethod ==
    /\ Given("trait") /\ Len(input.trait.items) < MaxItems
    /\ \E item \in FurtherItems(Len(input.trait.items) + 1) :
          input' = [input EXCEPT !.trait.items = Append(@, item)]
-----------------------------------------------------------------------------
(* Properties. *)

\* The composable FunctionCall a trait generates for a method sends what the
\* method of its client sends, and a view reads its answer in the format it
\* writes its arguments in: a contract sees one encoding per method.
PayloadsAgree ==
    Given("trait") =>
        LET generated == contract(input.attr, input.trait)
        IN  generated.ok =>
              /\ \A i \in DOMAIN generated.value.calls :
                    \E j \in DOMAIN generated.value.client :
                        /\ generated.value.client[j].name = generated.value.calls[i].name
                        /\ generated.value.client[j].makes = "CallBuilder"
                        /\ generated.value.client[j].sends = generated.value.calls[i].sends
              /\ \A j \in DOMAIN generated.value.client :
                    generated.value.client[j].makes = "ViewCall" =>
                        generated.value.client[j].reads = generated.value.client[j].sends.format

\* A trait that is accepted has a client method for each of its own, in order;
\* a method sends a transaction, and can be composed, exactly if it takes
\* &mut self, and an argument that has a name is sent.
ReceiverDecides ==
    Given("trait") =>
        LET generated == contract(input.attr, input.trait)
        IN  generated.ok =>
              /\ DOMAIN generated.value.client = DOMAIN input.trait.items
              /\ \A i \in DOMAIN input.trait.items :
                    LET written == input.trait.items[i]
                        made == generated.value.client[i]
                    IN  /\ made.name = written.name
                        /\ made.makes = "CallBuilder" <=> written.receiver = "&mut self"
                        /\ i \in DOMAIN generated.value.calls <=> written.receiver = "&mut self"
                        /\ written.args = <<"named">> => made.sends.args = "argument"

\* The methods generated for a trait make the requests its methods declare,
\* the same whether they are called or composed.
GeneratedAsDeclared ==
    /\ PayloadsAgree
    /\ ReceiverDecides
=============================================================================

------------------------------ MODULE MCProxy -------------------------------
(***************************************************************************)
(* Proxy on a small instance: an address the regex detector knows and a    *)
(* name only NER does, whose tokens have the same short id; a body of two  *)
(* places in a leaf the tokenizer goes through, and one in a leaf it       *)
(* skips.  MCAddress gives one value a prefix with a digit.                *)
(***************************************************************************)
EXTENDS Proxy, TLC

CONSTANTS alice, bob, word, p1, p2, p3, prompt, model

MCValue == {alice, bob}
MCStructured == {alice}
MCPlace == {p1, p2, p3}
MCLeaf == {prompt, model}
MCLeafOf == (p1 :> prompt) @@ (p2 :> prompt) @@ (p3 :> model)
MCProtocolLeaf == {model}
MCWord == {word}
MCTypeOf == (alice :> "EMAIL") @@ (bob :> "PERSON")
MCShortId == (alice :> 1) @@ (bob :> 1)
MCAddress == (alice :> "IPV4") @@ (bob :> "PERSON")
MCEntityType == {"EMAIL", "PERSON", "IPV4"}
MCId == {1}

Body(a, b, c) == (p1 :> a) @@ (p2 :> b) @@ (p3 :> c)
Alice == [type |-> "EMAIL", id |-> 1]
Bob == [type |-> "PERSON", id |-> 1]
Address == [type |-> "IPV4", id |-> 1]

MCRequests == {Body(alice, bob, alice), Body(alice, word, word)}

MCOneRequest == {Body(alice, word, word)}

MCResponses == {Body(Alice, Bob, word)}
MCAddressResponses == {Body(Address, Bob, word)}

Symmetry == Permutations(Req)
=============================================================================

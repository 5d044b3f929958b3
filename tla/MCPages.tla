------------------------------- MODULE MCPages -------------------------------
(* Values of the constants.  The editors: one integration, and a price and *)
(* a title in one list; an object with a price and no integration.  The    *)
(* grants: to read the menu; to change it and write one key, by name; and  *)
(* everything.                                                             *)
EXTENDS Pages

CONSTANTS provider, reference, price, title, x, mail, r1, r2

MCFields == {provider, reference, price, title}
MCFirst == {[f \in MCFields |-> IF f = price THEN x ELSE None]}

Rule(groups, resources, names, verbs) ==
  [groups |-> groups, resources |-> resources, names |-> names, verbs |-> verbs]
MCRules ==
  {Rule({"examples.configbutler.ai"}, {"coffeeconfigs"}, {}, {"get", "watch"}),
   Rule({"examples.configbutler.ai", "configbutler.ai", ""}, {"coffeeconfigs", "commitrequests", "secrets"},
        {"demo", "mail"}, {"create", "patch"}),
   Rule({"*"}, {"*"}, {}, {"*"})}
==============================================================================

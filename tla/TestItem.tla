------------------------------ MODULE TestItem ------------------------------
(***************************************************************************)
(* The menu interpreter of the diagnostic program,                         *)
(* lib/socle_lib/test_item.c: test_item_ctrl shows a menu and runs the     *)
(* item the user selects, or all of them.  The items of a menu are tests   *)
(* or functions that call test_item_ctrl for a menu of their own, so the   *)
(* calls form a stack; shell_layer and test_item_name, which make up the   *)
(* prompt, are shared by all of them.                                      *)
(***************************************************************************)
EXTENDS Integers, Sequences, FiniteSets

CONSTANTS
    Main,        \* main_test_item_container
    Items,       \* for each menu, the sequence of its items
    Enabled,     \* items whose enable flag is set
    Allowed,     \* items whose allow_autotest flag is set
    Keys,        \* the numbers the user types
    MaxFails     \* tests that may fail in a session

Menus    == DOMAIN Items
AllItems == UNION {{Items[m][k] : k \in DOMAIN Items[m]} : m \in Menus}

ASSUME TestItemAssumption ==
    /\ Main \in Menus /\ Keys \subseteq Nat /\ MaxFails \in Nat
    /\ Enabled \subseteq AllItems /\ Allowed \subseteq AllItems
    /\ \A m \in Menus : Items[m] \in Seq(AllItems)

\* No menu is reached from itself, and the menus nest at most 20 deep.
ASSUME NestingAssumption ==
    \E depth \in [Menus -> 0 .. 19] :
        \A m \in Menus : \A k \in DOMAIN Items[m] :
            Items[m][k] \in Menus => depth[Items[m][k]] > depth[m]

NoReturn == 1

VARIABLES
    stack,          \* the activations of test_item_ctrl, the last one active
    shell_layer,    \* static int shell_layer
    test_item_name, \* static char *test_item_name[]
    ret,            \* value an item has just returned, or NoReturn
    fails           \* tests that have failed so far

vars == <<stack, shell_layer, test_item_name, ret, fails>>

\* test_item_get_act_items: the places of the enabled items, in order.
Places(m) == {k \in DOMAIN Items[m] : Items[m][k] \in Enabled}
act_test_item_num(m) == Cardinality(Places(m))
act_test_item_array(m) ==
    CHOOSE p \in [1 .. act_test_item_num(m) -> Places(m)] :
        \A a, b \in DOMAIN p : a < b => p[a] < p[b]

\* items[act_test_item_array[n]]
act_test_item(m, n) == Items[m][act_test_item_array(m)[n + 1]]

\* An activation for menu m.  Its pc is "prompt", "z" in the auto-test
\* loop, "zrun" or "run" while an item runs.  start: fails when the
\* auto-test began.
Activation(m, autotest, n) ==
    [menu |-> m, autotest |-> autotest,
     pc |-> IF autotest THEN "z" ELSE "prompt",
     i |-> 0, item_index |-> 0, err_flag |-> 0, start |-> n]

TypeOK ==
    /\ \A k \in DOMAIN stack :
         /\ stack[k].menu \in Menus
         /\ stack[k].pc \in {"prompt", "z", "zrun", "run"}
         /\ stack[k].i \in 0 .. act_test_item_num(stack[k].menu)
         /\ stack[k].pc = "run" =>
              stack[k].item_index < act_test_item_num(stack[k].menu)
         /\ stack[k].err_flag \in {0, -1}
    /\ shell_layer \in -1 .. Len(stack) - 1
    /\ DOMAIN test_item_name \subseteq 0 .. 19
    /\ ret \in {NoReturn, 0, -1} /\ fails \in 0 .. MaxFails

Init ==
    /\ stack = <<Activation(Main, FALSE, 0)>> /\ shell_layer = 0
    /\ test_item_name = [l \in {} |-> Main]
    /\ ret = NoReturn /\ fails = 0

top == stack[Len(stack)]
Put(s, f) == [s EXCEPT ![Len(s)] = f]

\* The active call waits at pc p for nothing but its next step.
At(p) == stack # <<>> /\ ret = NoReturn /\ top.pc = p

\* The name of the item goes to the prompt; a menu gets an activation, a
\* test returns its result.
Run(it, autotest, f) ==
    /\ test_item_name' = [l \in DOMAIN test_item_name \cup {shell_layer} |->
                            IF l = shell_layer THEN it ELSE test_item_name[l]]
    /\ \/ /\ it \in Menus
          /\ stack' = Append(Put(stack, f), Activation(it, autotest, fails))
          /\ shell_layer' = shell_layer + 1
          /\ UNCHANGED <<ret, fails>>
       \/ /\ it \notin Menus
          /\ stack' = Put(stack, f)
          /\ \/ ret' = 0 /\ UNCHANGED fails
             \/ ret' = -1 /\ fails < MaxFails /\ fails' = fails + 1
          /\ UNCHANGED shell_layer

\* A return that leaves the prompt as it is.
Leave_keeps_layer(r) ==
    /\ stack' = SubSeq(stack, 1, Len(stack) - 1)
    /\ ret' = IF Len(stack) = 1 THEN NoReturn ELSE r
    /\ UNCHANGED <<shell_layer, test_item_name, fails>>

\* shell_layer--; return r.
Leave(r) ==
    /\ shell_layer' = shell_layer - 1
    /\ stack' = SubSeq(stack, 1, Len(stack) - 1)
    /\ ret' = IF Len(stack) = 1 THEN NoReturn ELSE r
    /\ UNCHANGED <<test_item_name, fails>>

KeyExit == At("prompt") /\ Leave(0)

KeyAll ==
    /\ At("prompt")
    /\ stack' = Put(stack, [top EXCEPT !.pc = "z", !.i = 0, !.err_flag = 0,
                                       !.start = fails])
    /\ UNCHANGED <<shell_layer, test_item_name, ret, fails>>

\* The code after default_break: "Invalid Option!", or run the item.
Selected(f) ==
    IF f.item_index >= act_test_item_num(f.menu)
      THEN /\ stack' = Put(stack, f)
           /\ UNCHANGED <<shell_layer, test_item_name, ret, fails>>
      ELSE Run(act_test_item(f.menu, f.item_index), FALSE,
               [f EXCEPT !.pc = "run"])

\* A number of one or two digits.
KeyNumber ==
    /\ At("prompt")
    /\ \E k \in Keys :
         Selected([top EXCEPT !.item_index = k])

\* Any other key leaves item_index as it was, and so runs the item of an
\* earlier key, or the first one.
KeyOther == At("prompt") /\ Selected(top)

\* One round of the auto-test loop.
AutoNext ==
    /\ At("z") /\ top.i < act_test_item_num(top.menu)
    /\ LET it == act_test_item(top.menu, top.i)
       IN IF it \in Allowed THEN Run(it, TRUE, [top EXCEPT !.pc = "zrun"])
          ELSE /\ stack' = Put(stack, [top EXCEPT !.i = @ + 1])
               /\ UNCHANGED <<shell_layer, test_item_name, ret, fails>>

\* The end of the loop falls through to the exit.
AutoEnd ==
    /\ At("z") /\ top.i = act_test_item_num(top.menu)
    /\ Leave(top.err_flag)

\* A loop that reports the last result alone.
ItemReturns_last_only ==
    /\ stack # <<>> /\ ret # NoReturn /\ ret' = NoReturn
    /\ stack' = Put(stack,
                  IF top.pc = "run" THEN [top EXCEPT !.pc = "prompt"]
                  ELSE [top EXCEPT !.pc = "z", !.i = @ + 1, !.err_flag = ret])
    /\ UNCHANGED <<shell_layer, test_item_name, fails>>

\* A loop that does not advance when a test fails.
ItemReturns_retries ==
    /\ stack # <<>> /\ ret # NoReturn /\ ret' = NoReturn
    /\ stack' = Put(stack,
                  IF top.pc = "run" THEN [top EXCEPT !.pc = "prompt"]
                  ELSE [top EXCEPT !.pc = "z", !.i = IF ret = 0 THEN @ ELSE 0,
                                   !.err_flag = IF ret # 0 THEN -1 ELSE @])
    /\ UNCHANGED <<shell_layer, test_item_name, fails>>

\* An item has returned: the verdict is printed and, in the auto-test,
\* collected in err_flag.
ItemReturns ==
    /\ stack # <<>> /\ ret # NoReturn /\ ret' = NoReturn
    /\ stack' = Put(stack,
                  IF top.pc = "run" THEN [top EXCEPT !.pc = "prompt"]
                  ELSE [top EXCEPT !.pc = "z", !.i = @ + 1,
                                   !.err_flag = IF ret # 0 THEN -1 ELSE @])
    /\ UNCHANGED <<shell_layer, test_item_name, fails>>

User     == KeyExit \/ KeyAll \/ KeyNumber \/ KeyOther
AutoTest == AutoNext \/ AutoEnd \/ ItemReturns

Next == User \/ AutoTest

\* Tests return; the user need not press a key.
Spec == Init /\ [][Next]_vars /\ WF_vars(AutoTest)

(***************************************************************************)
(* Properties                                                              *)
(***************************************************************************)
\* The prompt shows the way to the active menu: at every depth the shared
\* name table holds the item through which the next menu was entered.
PromptIsPath ==
    /\ shell_layer = Len(stack) - 1
    /\ \A k \in 1 .. Len(stack) - 1 :
         k - 1 \in DOMAIN test_item_name
         /\ test_item_name[k - 1] = stack[k + 1].menu

\* The verdict of an auto-test is that of all tests it has run, those of
\* nested menus included: err_flag is set if and only if one has failed.
VerdictIsTrue ==
    At("z") => (top.err_flag = -1 <=> fails > top.start)

\* An auto-test, with all its nested menus, comes to an end, whatever the
\* tests return, and the user gets a prompt again.
AutoTestEnds ==
    []<>(stack = <<>> \/ At("prompt"))

\* The shared variables of the nested menus are in step with the calls.
PromptSound == TypeOK /\ PromptIsPath
=============================================================================

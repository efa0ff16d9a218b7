------------------------------ MODULE Console -------------------------------
(***************************************************************************)
(* main of custom_client.cpp: the thread that waits for a key, the promise *)
(* through which it hands the key over, and the loop that acts on keys and *)
(* shows the server's messages.                                            *)
(*                                                                         *)
(* What the loop uses of the library is here as it shows itself to the     *)
(* loop: isConnected, which may turn false at any time and stays false,    *)
(* and the queue of received messages, whose operations are atomic (module *)
(* TsNetQueue).                                                            *)
(***************************************************************************)
EXTENDS Naturals, Sequences, SequencesExt

CONSTANTS MaxKeys,     \* bound: keys that the user presses
          MaxMsgs      \* bound: messages that arrive

ASSUME ConsoleAssumption == MaxKeys \in Nat /\ MaxMsgs \in Nat

\* possable_inputs: p and m send; a, d and s only print; q and ctrl+c end the program.
possable_inputs == {"p", "m", "print", "quit"}
Keys == possable_inputs \union {"other"}

NoKey == "none"

VARIABLES
    main,        \* where the main thread is: "poll" (the top of the loop), "act", "join",
                 \* "promise", "future", "thread" (they are made anew), "connected?", "empty?",
                 \* "pop", "quit" (it joins and returns), "returned"
    input_character,
    promise,     \* prmsChar: [number, value]; number counts the promises made so far
    future,      \* ftrChar: the number of the promise whose value it gets
    thread,      \* input_listening_thr: where ("getchar", "set_value", "inside" once the
                 \* value can be seen but set_value has not returned, "returned"), the key,
                 \* whether it is joined, and the number of the promise it was started with
    connected,   \* client.isConnected()
    incoming,    \* client.Incoming(): messages are numbered as they arrive
    arrived,     \* how many have arrived
    shown,       \* history: messages printed
    pressed,     \* history: keys that were accepted,
    acted,       \* keys acted on,
    sent         \* keys whose message was given to the connection

keyVars == <<input_character, promise, future, thread, pressed, acted, sent>>
netVars == <<connected, incoming, arrived, shown>>
vars == <<main, keyVars, netVars>>

NewThread(number) == [at |-> "getchar", key |-> NoKey, joined |-> FALSE, promise |-> number]

Mains == {"poll", "act", "join", "promise", "future", "thread", "connected?", "empty?", "pop", "quit", "returned"}

TypeOK ==
    /\ main \in Mains
    /\ input_character \in possable_inputs \union {"y"}
    /\ promise \in [number : Nat, value : possable_inputs \union {NoKey}]
    /\ future \in Nat
    /\ thread \in [at : {"getchar", "set_value", "inside", "returned"},
                   key : possable_inputs \union {NoKey}, joined : BOOLEAN, promise : Nat]
    /\ connected \in BOOLEAN /\ incoming \in Seq(1 .. arrived) /\ arrived \in Nat
    /\ shown \in Seq(1 .. arrived)
    /\ pressed \in Seq(possable_inputs) /\ acted \in Seq(possable_inputs)
    /\ sent \in Seq({"p", "m"})

\* main up to the loop.  Connect may have failed.
Init ==
    /\ main = "poll" /\ input_character = "y"
    /\ promise = [number |-> 1, value |-> NoKey] /\ future = 1
    /\ thread = NewThread(1)
    /\ connected \in BOOLEAN
    /\ incoming = << >> /\ arrived = 0 /\ shown = << >>
    /\ pressed = << >> /\ acted = << >> /\ sent = << >>

-----------------------------------------------------------------------------
(* get_keyboard_input, in its thread. *)

\* getchar returns; a key that means nothing is passed over.
getchar(key) ==
    /\ thread.at = "getchar" /\ main # "returned"
    /\ Len(pressed) < MaxKeys
    /\ \/ /\ key \in possable_inputs
          /\ thread' = [thread EXCEPT !.at = "set_value", !.key = key]
          /\ pressed' = Append(pressed, key)
       \/ /\ key \notin possable_inputs
          /\ UNCHANGED <<thread, pressed>>
    /\ UNCHANGED <<main, input_character, promise, future, acted, sent, netVars>>

\* The thread has the address of prmsChar: it sets whichever promise is there.
set_value ==
    /\ thread.at = "set_value"
    /\ promise' = [promise EXCEPT !.value = thread.key]
    /\ thread' = [thread EXCEPT !.at = "inside"]
    /\ UNCHANGED <<main, input_character, future, pressed, acted, sent, netVars>>

thread_returns ==
    /\ thread.at = "inside"
    /\ thread' = [thread EXCEPT !.at = "returned"]
    /\ UNCHANGED <<main, input_character, promise, future, pressed, acted, sent, netVars>>

Keyboard == set_value \/ thread_returns

-----------------------------------------------------------------------------
(* The loop of main: keys. *)

\* is_ready and get.
is_ready == promise.number = future /\ promise.value # NoKey

\* Mutant of poll: get is called without asking, and waits for a key.
poll_blocks ==
    /\ main = "poll" /\ is_ready
    /\ input_character' = promise.value
    /\ main' = "act"
    /\ UNCHANGED <<promise, future, thread, pressed, acted, sent, netVars>>

poll ==
    /\ main = "poll"
    /\ \/ /\ is_ready
          /\ input_character' = promise.value
          /\ main' = "act"
       \/ /\ ~is_ready
          /\ main' = "connected?"
          /\ UNCHANGED input_character
    /\ UNCHANGED <<promise, future, thread, pressed, acted, sent, netVars>>

\* Mutant of act: a key is followed by the next thread without a join.
act_no_join ==
    /\ main = "act"
    /\ acted' = Append(acted, input_character)
    /\ sent' = IF input_character \in {"p", "m"} /\ connected
               THEN Append(sent, input_character) ELSE sent
    /\ main' = IF input_character = "quit" THEN "quit" ELSE "promise"
    /\ UNCHANGED <<input_character, promise, future, thread, pressed, netVars>>

\* The switch.  PingServer and MessageAll go through Send, which does nothing without
\* a connection.
act ==
    /\ main = "act"
    /\ acted' = Append(acted, input_character)
    /\ sent' = IF input_character \in {"p", "m"} /\ connected
               THEN Append(sent, input_character) ELSE sent
    /\ main' = IF input_character = "quit" THEN "quit" ELSE "join"
    /\ UNCHANGED <<input_character, promise, future, thread, pressed, netVars>>

join ==
    /\ main \in {"join", "quit"} /\ thread.at = "returned"
    /\ thread' = [thread EXCEPT !.joined = TRUE]
    /\ main' = IF main = "quit" THEN "returned" ELSE "promise"
    /\ UNCHANGED <<input_character, promise, future, pressed, acted, sent, netVars>>

\* Mutant of new_promise: the old one is used again.
new_promise_not ==
    /\ main = "promise"
    /\ main' = "future"
    /\ UNCHANGED <<keyVars, netVars>>

\* A new promise is moved into prmsChar.
new_promise ==
    /\ main = "promise"
    /\ promise' = [number |-> promise.number + 1, value |-> NoKey]
    /\ main' = "future"
    /\ UNCHANGED <<input_character, future, thread, pressed, acted, sent, netVars>>

\* Mutant of get_future: the future stays that of the old promise.
get_future_not ==
    /\ main = "future"
    /\ main' = "thread"
    /\ UNCHANGED <<keyVars, netVars>>

get_future ==
    /\ main = "future"
    /\ future' = promise.number
    /\ main' = "thread"
    /\ UNCHANGED <<input_character, promise, thread, pressed, acted, sent, netVars>>

new_thread ==
    /\ main = "thread"
    /\ thread' = NewThread(promise.number)
    /\ main' = "poll"
    /\ UNCHANGED <<input_character, promise, future, pressed, acted, sent, netVars>>

-----------------------------------------------------------------------------
(* The loop of main: messages. *)

isConnected == /\ main = "connected?"
               /\ main' = IF connected THEN "empty?" ELSE "poll"
               /\ UNCHANGED <<keyVars, netVars>>

\* Of an empty queue main sleeps for 200 ms and goes round.
isEmpty == /\ main = "empty?"
           /\ main' = IF incoming = << >> THEN "poll" ELSE "pop"
           /\ UNCHANGED <<keyVars, netVars>>

\* The message is printed according to its kind.
popFront == /\ main = "pop" /\ incoming # << >>
            /\ shown' = Append(shown, Head(incoming))
            /\ incoming' = Tail(incoming)
            /\ main' = "poll"
            /\ UNCHANGED <<keyVars, connected, arrived>>

Main == \/ poll \/ act \/ join \/ new_promise \/ get_future \/ new_thread
        \/ isConnected \/ isEmpty \/ popFront

-----------------------------------------------------------------------------
(* The connection, in the thread of its io_context. *)

MessageArrives == /\ connected /\ arrived < MaxMsgs /\ main # "returned"
                  /\ arrived' = arrived + 1
                  /\ incoming' = Append(incoming, arrived + 1)
                  /\ UNCHANGED <<main, keyVars, connected, shown>>

ConnectionCloses == /\ connected
                    /\ connected' = FALSE
                    /\ UNCHANGED <<main, keyVars, incoming, arrived, shown>>

Next == \/ \E key \in Keys : getchar(key)
        \/ Keyboard \/ Main \/ MessageArrives \/ ConnectionCloses

\* Both threads run on.  The user need not press a key, nothing need arrive.
Spec == Init /\ [][Next]_vars /\ WF_vars(Keyboard) /\ WF_vars(Main)

-----------------------------------------------------------------------------
(* What the console promises. *)

\* Until the keyboard thread is joined, prmsChar holds the promise that the thread was
\* started with: it is neither replaced while the thread is in set_value, nor, by main
\* returning, destroyed.
PromiseOutlivesThread ==
    ~thread.joined => thread.promise = promise.number /\ main # "returned"

\* Every key is acted on once, in the order they were pressed, and no key is pressed
\* into the void while another waits.
KeysInOrder == IsPrefix(acted, pressed) /\ Len(pressed) <= Len(acted) + 1

\* The emptiness that main has seen does not change before it pops: it is the only
\* consumer.  Popping an empty std::deque would be undefined.
PopHasMessage == main = "pop" => incoming # << >>

\* Messages are shown in the order in which they arrived, none twice, none left out.
ShownInOrder == shown \o incoming = [n \in 1 .. arrived |-> n]

\* A key that is pressed is acted on, whatever arrives meanwhile; quit ends the program.
KeysActedOn ==
    /\ \A n \in 1 .. MaxKeys : Len(pressed) >= n ~> Len(acted) >= n
    /\ (pressed # << >> /\ Last(pressed) = "quit") ~> main = "returned"

\* A message that has arrived is shown, unless the connection closes before (then what
\* the queue still holds is not looked at any more) or the user quits.
MessagesShown ==
    \A n \in 1 .. MaxMsgs :
        arrived >= n ~> (Len(shown) >= n \/ ~connected \/ main = "returned")
=============================================================================

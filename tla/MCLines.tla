------------------------------- MODULE MCLines --------------------------------
(* The chat server or the terminal server, chosen at the start, with clients. *)
EXTENDS LineWorld

Chat     == INSTANCE ChatServer
Terminal == INSTANCE TerminalServer

MembersInformed == Chat!MembersInformed
TextWhole       == Chat!TextWhole
PatientAnswered == Terminal!PatientAnswered

Line(name, args, good, len) == [name |-> name, args |-> args, good |-> good, len |-> len]

\* On the terminal, a line of every case of dispatch, len 1 being the empty line.
MCInputs ==
    [chat     |-> { Line("hello", 0, TRUE, 2) },
     terminal |-> { Line("date", 0, TRUE, 2), Line("mul", 2, FALSE, 3), Line("cd", 1, TRUE, 3),
                    Line("cd", 0, TRUE, 2), Line("ls", 0, TRUE, 2), Line("", 0, TRUE, 1) }]
MCQuota     == [chat |-> 2, terminal |-> 1]
MCMaxInputs == [chat |-> 2, terminal |-> 2]

Next == \/ World
        \/ \E s \in Sessions : Asio(s)
        \/ Chat!Next
        \/ Terminal!Next

\* The io_service runs what is ready, TCP delivers.
Fairness == \A s \in Sessions : /\ WF_vars(Asio(s))
                                /\ WF_vars(Chat!Handlers(s))
                                /\ WF_vars(Terminal!Handlers(s))

Spec == Init /\ [][Next]_vars /\ Fairness
=============================================================================

---------------------------- MODULE MCCommands ------------------------------
(* Small instances of the mail commands for TLC. *)
EXTENDS Commands, TLC

CONSTANTS m1, m2

TwoManagers == {m1, m2}
TwoLists    == {"news", "talk"}
TwoPeople   == {"ann", "bob"}

\* One list that is guarded, and one that is open and has its users in a table; and the
\* second alone, with other policies and no password.
Guarded == [ lists |-> <<"news", "talk">>, pass |-> [news |-> "red", talk |-> "blue"],
             add |-> [news |-> "approve", talk |-> "open"],
             del |-> [news |-> "closed", talk |-> "anyone"],
             send |-> [news |-> "sender", talk |-> "subscriber"],
             tables |-> {<<"users", "talk">>, <<"senders", "news">>}, quiet |-> FALSE ]
Changed == [ Guarded EXCEPT !.lists = <<"talk">>, !.pass = [l \in {"news"} |-> "red"],
               !.add["talk"] = "approve", !.del["talk"] = "open", !.send["talk"] = "sender",
               !.tables = {}, !.quiet = TRUE ]
Setups == {Guarded, Changed}

Listed == [ users |-> [news |-> {"bob"}, talk |-> {"ann"}],
            senders |-> [news |-> {"bob"}, talk |-> {}] ]

Mail(to, from, subject, body) ==
  [to |-> to, from |-> from, big |-> FALSE, subject |-> subject, body |-> body]

\* Lines of commands, with and without passwords.
Plain  == {<<c, "news">> : c \in Changes \ {"xdel"}} \cup {<<c, "talk", "bob">> : c \in UserCmds} \cup
          {<<"add", "talk">>, <<"xdel", "talk">>}
Sealing == {<<"approve", p>> \o line : p \in {"red", "blue"},
              line \in {<<c, l>> : c \in {"add", "addsender"}, l \in {"news", "talk"}}}
             \cup {<<"approve", "red", c, "news", "bob">> : c \in {"del", "delsender"}}
Twice  == {<<"approve", "red", "approve", q, "addsender", l>> :
             q \in {"red", "talk"}, l \in {"news", "talk"}}
Other  == {<<"help">>, <<"quiet">>, <<"approve", "red", "add">>,
           <<"add", "news", "@">>, <<"add", "news", "talk">>, <<"add", "else">>}

Single == {Mail("listserver", "ann", <<>>, <<line>>) : line \in Plain \cup Sealing \cup Twice \cup Other}

\* Mails of several lines: a change taken back, too many errors, the same after errors in
\* the subject, and a signature.
Joining == Mail("listserver", "ann", <<>>, <<<<"add", "talk", "bob">>, <<"add", "talk">>, <<"del", "talk">>>>)
Hello   == Mail("listserver", "ann", <<>>, <<<<"hello">>, <<"hello">>, <<"xadd", "news">>>>)
Subject == Mail("listserver", "ann", <<<<"hello">>, <<"add", "talk">>>>, <<<<"hello">>, <<"xadd", "news">>>>)
Signed  == Mail("listserver", "ann", <<>>, <<<<"quiet">>, <<"xdel", "talk">>, <<"--">>, <<"xadd", "news">>>>)
AddBob  == Mail("listserver", "bob", <<>>, <<<<"add", "talk">>>>)
AddAnn  == Mail("listserver", "bob", <<>>, <<<<"approve", "red", "addsender", "news", "ann">>>>)
News    == Mail("news", "ann", <<>>, <<>>)
Talk    == Mail("talk", "bob", <<>>, <<>>)
Large   == [Talk EXCEPT !.big = TRUE]

TwoMails == {"first", "second"}
Bag(x, y) == [first |-> x, second |-> y]
Mailbag  == {Bag(x, News) : x \in Single} \cup
            {Bag(Joining, AddBob), Bag(Hello, Talk), Bag(Subject, Large), Bag(Signed, Talk), Bag(AddAnn, News)}
=============================================================================

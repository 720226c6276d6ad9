---------------------------- MODULE MCEventTrace ----------------------------
(* EventTrace with small constants. *)
EXTENDS EventTrace, TLC

CONSTANTS u1, u2, r1, r2, p1, p2, e1, e2, daily, monthly

\* Accounts: two users with a phone each, of which one logs in, an e-mail address and a
\* WhatsApp number.
phone1 == [kind |-> "phone", address |-> 1]
phone2 == [kind |-> "phone", address |-> 2]

MCPlaces == {phone1, [kind |-> "email", address |-> 3], [kind |-> "whatsapp", address |-> 4]}
MCPhoneOf == u1 :> phone1 @@ u2 :> phone2

\* Contacts: one setting or the other is switched off.
MCUpdates == {"whatsapp" :> FALSE, "email" :> FALSE}

\* eCourts: a prefix that matches two types, with another one in the code, and under one of
\* them another case as well; a prefix that matches none.
MCPrefixOf == [ref \in Refs |-> ref]
MCMatching == "a" :> {1, 2} @@ "b" :> {}
MCHardcoded == "a" :> 2 @@ "b" :> 1
MCListed == <<1, "a">> :> {"y"} @@ <<2, "a">> :> {"x", "y"} @@ <<1, "b">> :> {"y"} @@ <<2, "b">> :> {}

MCEntries == {[cino |-> Unset, type |-> Unset], [cino |-> Unset, type |-> 2],
              [cino |-> "x", type |-> 1], [cino |-> "y", type |-> Unset]}

\* Cause lists: one with the case behind another one; one in which its row is overwritten by
\* another one with its number, and it is in two blocks of another court as well, of which
\* the second deletes what is behind it.  A monthly list is stored under the first of its
\* days.
Row(c, s, n, t) == [court |-> c, section |-> s, serial |-> n, tracked |-> t]
Block(c, s) == [court |-> c, rows |-> s]

MCSourceOrder == <<daily, monthly>>

MCLists ==
  {<<Block(1, <<Row(1, "a", 1, FALSE), Row(1, "a", 2, TRUE)>>)>>,
   <<Block(1, <<Row(1, "a", 1, TRUE), Row(1, "a", 1, FALSE)>>),
     Block(2, <<Row(2, "b", 1, TRUE), Row(2, "b", 2, FALSE)>>), Block(2, <<Row(2, "b", 1, TRUE)>>)>>}

MCStoredUnder == [x \in Sources \X Dates |-> IF x[1] = monthly THEN 1 ELSE x[2]]
MCShouldRun == ({daily} \X Dates) \cup {<<monthly, 2>>}

\* What no part tells apart.
MCSymmetry == Permutations(Requests)

=============================================================================

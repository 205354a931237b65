---------------------------- MODULE MCLinkQueue ----------------------------
\* A site of six URLs.  "old" redirects to "new", which has the same local name;
\* "goto" to "pic", which has not.  The type of a page shows in its name, that of
\* the others does not.
EXTENDS LinkQueue, TLC

MCUrl == {"home", "img", "old", "new", "goto", "pic"}
MCName == {"home", "img", "page", "goto", "pic"}
MCNameOf == [u \in MCUrl |-> IF u \in {"old", "new"} THEN "page" ELSE u]
MCTarget == [u \in MCUrl |-> IF u = "old" THEN "new"
                             ELSE IF u = "goto" THEN "pic" ELSE u]
MCAnswers == "home" :> {"page"} @@ "img" :> {"file", "again"}
             @@ "old" :> {"moved"} @@ "new" :> {"page"}
             @@ "goto" :> {"moved"} @@ "pic" :> {"file"}
MCLinks == [u \in MCUrl |-> CASE u = "home" -> <<"old", "img", "goto">>
                              [] u = "new" -> <<"pic", "img", "home">>
                              [] OTHER -> <<>>]
=============================================================================

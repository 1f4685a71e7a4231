------------------------ MODULE MCSaveManagerAuthor ------------------------
(* SaveManager with an auxiliary variable: the session whose intent last     *)
(* changed each save.                                                       *)
EXTENDS MCSaveManager

VARIABLE author

AuthorInit == Init /\ author = [k \in Key |-> None]

AuthorNext ==
    \/ \E s \in Session :
          Intent(s) /\ author' = [author EXCEPT ![KeyOf[s]] = s]
    \/ Otherwise /\ UNCHANGED author

AuthorSpec == AuthorInit /\ [][AuthorNext]_<<vars, author>>

\* An intent that arrives after the player was kicked is refused
\* (session.go:10-11): a kicked session is never the next one to act.
KickedIntentsRefused ==
    [][\A k \in Key :
          author'[k] # author[k] => author'[k] \notin kicked]_<<vars, author>>

=============================================================================

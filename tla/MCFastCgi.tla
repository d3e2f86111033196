------------------------------ MODULE MCFastCgi ------------------------------
(* Two requests.  The first has the parameters that exercise the decoder,  *)
(* the second is a small one that follows it, meets it, or reuses its id.  *)
EXTENDS FastCgi

Pair(n, v, l) == [name |-> n, value |-> v, long |-> l]

GET == Pair(REQUEST_METHOD, <<71>>, FALSE)

\* Orders and forms of parameters, and ones without a method.
Rich == {
    <<GET>>,
    <<Pair(REQUEST_METHOD, <<71>>, TRUE), Pair(QUERY_STRING, << >>, FALSE)>>,
    <<Pair(PATH_INFO, <<47>>, FALSE), GET, Pair(SCRIPT_NAME, <<46, 46, 46>>, FALSE)>>,
    <<GET, Pair(SCRIPT_NAME, << >>, FALSE), Pair(PATH_INFO, <<47>>, FALSE)>>,
    <<GET, Pair(PATH_INFO, <<47>>, FALSE), Pair(SCRIPT_NAME, << >>, FALSE)>>,
    <<Pair(<<5>>, <<1, 2>>, FALSE), GET, Pair(REQUEST_METHOD, <<80>>, FALSE)>>,
    <<Pair(QUERY_STRING, <<63, 63>>, FALSE)>> }

Content(i, ro, ps, c, sk, b) ==
    [id |-> i, role |-> ro, pairs |-> ps, cut |-> c, skip |-> sk, body |-> b]

First ==
    {Content(1, "responder", ps, 0, FALSE, <<9>>) : ps \in Rich}
    \cup {Content(1, "responder", <<GET>>, c, sk, b) :
            c \in {0, 1}, sk \in BOOLEAN, b \in {<< >>, <<9, 0, 9>>}}
    \cup {Content(1, "responder", <<GET, GET, GET, GET>>, 0, FALSE, << >>)}
    \cup {Content(1, "authorizer", <<GET>>, 0, FALSE, << >>)}

Second == {Content(i, "responder", <<GET>>, 0, FALSE, <<8>>) : i \in Ids}

MCWorkloads == {<<f, s>> : f \in First, s \in Second}
=============================================================================

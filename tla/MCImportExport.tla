-------------------------- MODULE MCImportExport --------------------------
(* Forms and files for the import and export run, and texts for the QR code. *)
(* The two are parts of one page that share nothing: a behaviour exercises   *)
(* one of them.                                                              *)
EXTENDS ImportExport, QRCode

Core(u, p, t) == [username |-> u, password |-> p, tagsInput |-> t]
Form(title, core, slots) == [title |-> title, core |-> core, slots |-> slots]
Key == Slot("ssh_private_key", <<>>, <<"a", "nl">>)

MCChars == {"a", "b", "c", "f", "h", "m", "n", "p", "q", "s", "t", "u", "x", "L", "S", "T", "0", "1",
            "ref", "sp", "comma", "semi", "/", "://", "nl"}

MCForms == {
    Form(<<"T", "sp">>, Core(<<"u">>, <<"p">>, <<>>), <<>>),
    Form(<<"q", "comma">>, Core(<<"a", "q">>, <<"q", "comma", "q">>, <<"a", "comma", "sp", "b">>),
         <<Slot("url", <<>>, <<"://", "h", "/">>), Slot("favorite", <<>>, <<"1">>)>>),
    Form(<<"T">>, Core(<<>>, <<"q">>, <<"a">>),
         <<Slot("notes", <<>>, <<"a", "comma", "q">>), Slot("totp", <<>>, <<"sp", "a">>), Slot("tags", <<>>, <<"b", "comma", "a">>)>>),
    Form(<<"T">>, Core(<<"u">>, <<"sp", "p">>, <<"a">>), <<Slot("notes", <<>>, <<"a", "nl", "b">>), Key>>),
    Form(<<"S">>, Core(<<"u">>, <<"p", "semi">>, <<>>),
         <<Slot("url", <<>>, <<"a", "semi", "b">>), Slot("url", <<>>, <<>>), Slot("url", <<>>, <<"c">>), Slot("text", <<"sp">>, <<>>)>>),
    Form(<<"S">>, Core(<<"u">>, <<"p">>, <<>>),
         <<Slot("secret", <<"x", "q">>, <<"a", "nl">>), Key, Slot("favorite", <<>>, <<"0">>), Slot("text", <<"a", "ref">>, <<"q">>), Slot("text", <<>>, <<"ref">>),
           Slot("notes", <<>>, <<"n">>), Slot("notes", <<>>, <<"m">>)>>) }

MCFolders == { <<>>, <<"a">> }

MCLogins == {[title |-> t, username |-> <<"u">>, password |-> p, url |-> <<"://", "h", "/">>, notes |-> <<"n">>,
              totp |-> <<"s">>, folder |-> <<"f">>, typed |-> y] : p \in {<<"p">>, <<"q", "comma">>}, 
              t \in { <<>>, <<"T">> }, y \in BOOLEAN}

\* A full symbol of version 1 and one byte more, an otpauth URL's length
\* (version 6), the first two-byte length and uneven blocks (version 10), too long.
MCTexts == {[i \in 1 .. 14 |-> 96 + i], [i \in 1 .. 15 |-> 80 + i], [i \in 1 .. 104 |-> 33 + ((i * i) % 90)],
            [i \in 1 .. 61 |-> IF i % 5 = 0 THEN 252 ELSE 8364], [i \in 1 .. 151 |-> 8364]}

MCInit == Init /\ QRInit
MCNext == \/ Next /\ drawing = Undrawn /\ UNCHANGED drawing
          \/ Init /\ QRNext /\ UNCHANGED vars
MCSpec == MCInit /\ [][MCNext]_<<vars, drawing>>
===========================================================================

--------------------------- MODULE MCPageArchive ---------------------------
(* A page with a stylesheet and a script of its own and a stylesheet and an  *)
(* image of another origin.  The stylesheets import each other, two images   *)
(* have the same file name, two of different origins the same path.  Nothing *)
(* but the browser knows that theme is a stylesheet; old is one that is not  *)
(* UTF-8.                                                                    *)
EXTENDS ArchiveOutputs

CONSTANTS home, css, js, pic, alt, farCss, farPic, theme, old

MCOrigin == [d \in Documents |-> IF d \in {farCss, farPic} THEN "far" ELSE "home"]

MCPath == [u \in Urls |-> CASE u = css -> "/a.css" [] u = js -> "/a.js" [] u = pic -> "/i/x.png"
                            [] u = theme -> "/theme" [] u = old -> "/o.css"
                            [] u = alt -> "/j/x.png" [] u = farCss -> "/b.css" [] u = farPic -> "/i/x.png"]

MCFileName == [u \in Urls |-> CASE u = css -> "home-a.css" [] u = js -> "home-a.js"
                                [] u = theme -> "home-theme" [] u = old -> "home-o.css"
                                [] u \in {pic, alt} -> "home-x.png"
                                [] u = farCss -> "far-b.css" [] u = farPic -> "far-x.png"]

MCSize == [d \in Documents |-> IF d \in {css, farPic} THEN 2 ELSE 1]

MCHint == [u \in Urls |-> IF u \in {css, farCss, old} THEN "css" ELSE IF u = js THEN "text" ELSE "other"]

Abs(u) == [form |-> "absolute", to |-> u]
Root(u) == [form |-> "rooted", to |-> u]
Rel(u) == [form |-> "relative", to |-> u]

MCWrites == [d \in Documents |->
    CASE d = home   -> <<Root(css), Abs(farPic), Rel(alt)>>
      [] d = css    -> <<Rel(alt), Abs(farCss), Root(pic), Root(pic)>>
      [] d = js     -> <<Root(pic), Abs(css), Root(pic)>>
      [] d = farCss -> <<Root(farPic), Abs(css)>>
      [] d = theme  -> <<Rel(old), Abs(farPic)>>
      [] d = old    -> <<Rel(pic), Abs(farCss)>>
      [] OTHER      -> <<>>]

MCUtf8 == Urls \ {old}

Captured(u, embedded, declared) ==
    [url |-> u, kind |-> Hint[u], embedded |-> embedded, declared |-> declared]

MCSnapshots == {
    <<>>,
    <<Captured(pic, FALSE, 0), Captured(css, FALSE, 3)>>,
    <<Captured(js, TRUE, 0), Captured(farPic, TRUE, 0), Captured(alt, FALSE, 0)>>,
    <<[Captured(theme, FALSE, 0) EXCEPT !.kind = "sheet"]>>}

MCLimits == {[count |-> 2, total |-> 4, declared |-> 3, one |-> 2],
             [count |-> 3, total |-> 9, declared |-> 1, one |-> 1],
             [count |-> 6, total |-> 9, declared |-> 3, one |-> 3]}

MCWanted == {Optional \ {"archive.har"}}
MCEarlier == {Outputs}
=============================================================================

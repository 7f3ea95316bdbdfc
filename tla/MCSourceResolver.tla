--------------------------- MODULE MCSourceResolver ---------------------------
(* A small instance of SourceResolver: three URLs and an origin that can      *)
(* answer in every way the verdict tells apart.                               *)
EXTENDS SourceResolver

Response(status, type, length, marks) ==
    [status |-> status, type |-> type, length |-> length, marks |-> marks,
     manifestPath |-> FALSE]

MCAnswers ==
    {Response(200, "media", 9, {"text"}),                        \* media
     Response(206, "media", 1, {"text"}),                        \* too short
     Response(200, "none", 0, {"text"}),                         \* says nothing
     Response(200, "image", 9, {"text"}),                        \* a poster
     Response(405, "none", 0, {}),
     Response(403, "html", 9, {"text", "html", "geo", "denied"}),
     Response(401, "none", 0, {"text", "throttled"}),
     Response(410, "none", 0, {}),
     Response(429, "none", 0, {}),
     Response(503, "html", 9, {"html"}),
     Response(200, "manifest", 9, {"m3u"}),                      \* an empty playlist
     Response(200, "media", 9, {"m3u", "entries"}),
     Response(200, "manifest", 9, {"m3u", "entries", "variant"}),
     Response(200, "manifest", 9, {"m3u", "entries", "key", "system"}),
     [Response(200, "media", 9, {"mpd", "entries", "protection"})
         EXCEPT !.manifestPath = TRUE]}

Candidate(url, kind, score) ==
    [url |-> url, kind |-> kind, score |-> score, state |-> "Untested",
     listed |-> kind = "Manifest", valid |-> TRUE, lapsed |-> FALSE]

Video == Candidate("a", "Video", 2)
VideoAgain == Candidate("a", "Video", 9)
Playlist == Candidate("b", "Manifest", 4)
Signed == [Candidate("c", "Audio", 3) EXCEPT !.lapsed = TRUE]
Checked == [Candidate("c", "Manifest", 1) EXCEPT !.state = "Usable"]

MCReports == {<<>>, <<Video, VideoAgain>>, <<Playlist, Signed>>, <<VideoAgain, Playlist>>, <<Checked>>}

MCApplicable == {{"direct", "generic", "yt_dlp", "browser_probe"}, {"mac_cms", "lux"}}
=============================================================================

SPECIFICATION Spec
CONSTANTS
    home = home
    css = css  js = js  pic = pic  alt = alt  farCss = farCss  farPic = farPic
    theme = theme  old = old
    Page = home
    Urls = {css, js, pic, alt, farCss, farPic, theme, old}
    NoUrl = NoUrl
    NoName = NoName
    Origin <- MCOrigin
    Path <- MCPath
    FileName <- MCFileName
    Size <- MCSize
    Utf8 <- MCUtf8
    Hint <- MCHint
    Writes <- MCWrites
    Snapshots <- MCSnapshots
    Limits <- MCLimits
    Wanted <- MCWanted
    Earlier <- MCEarlier
INVARIANTS
    WithinLimits
    OwnCopies
    ArchivedIsShown
    NothingMissed
    ArchiveIsOfOneRun
CHECK_DEADLOCK FALSE

------------------------------ MODULE MCCrawl ------------------------------
(***************************************************************************)
(* A spider of four URLs, as DouSpider and SucupiraSpider have several,    *)
(* and one of one URL, as the registered WordPress spiders are, share       *)
(* three slots and two contexts of the browser.                            *)
(***************************************************************************)
EXTENDS BrowserCrawl, TLC

CONSTANTS u1, u2, u3, u4, u5

TwoSpiders == <<{u1, u2, u3, u5}, {u4}>>
OneUrlEach == <<{u1}, {u2}>>
=============================================================================

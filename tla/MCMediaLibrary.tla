---------------------------- MODULE MCMediaLibrary ----------------------------
EXTENDS MediaLibrary, TLC

\* Rows and URLs are interchangeable, except for the URLs of bad files.
LibrarySymmetry == Permutations(Assets) \cup Permutations(Requests)
                     \cup Permutations(Urls \ BadUrls)
=============================================================================

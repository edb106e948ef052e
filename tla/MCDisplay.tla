----------------------------- MODULE MCDisplay -----------------------------
(* The textures of assets.cpp; the background, the basket and items.       *)
EXTENDS Display

Texture(w, h, cw, ch, r, c) ==
  [width |-> w, height |-> h, cell_width |-> cw, cell_height |-> ch,
   rows |-> r, columns |-> c]

jungle  == Texture(400, 240, 400, 240, 1, 1)
fruits  == Texture(1216, 192, 32, 32, 6, 38)
spiders == Texture(128, 64, 32, 32, 2, 4)
basket  == Texture(64, 32, 64, 32, 1, 1)

Bitmaps == {jungle, fruits, spiders, basket}

Sprite(t, i) == [texture |-> t, index |-> i]

\* The corners of the two sheets, and where their first row ends.
Items == {Sprite(fruits, i) : i \in {0, 37, 38, 227}} \cup
         {Sprite(spiders, i) : i \in {0, 3, 4, 7}}

Jungle == {Sprite(jungle, 0)}
Drawn ==
  {{}} \cup {{Sprite(basket, 0), i} : i \in Items}
       \cup {{Sprite(basket, 0), Sprite(fruits, 0), Sprite(spiders, 7)}}
=============================================================================

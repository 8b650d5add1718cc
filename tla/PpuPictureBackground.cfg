SPECIFICATION Spec
CONSTANTS
    TileW = 2
    Cols = 3
    Rows = 3
    ActiveMax = 1
    SpriteX = {0, 5}
    FineXs = {0, 1}
    MaxWrites = 3
    MaxSprites = 1
INVARIANTS
    SpritesMeetThisPicture
